---------------------------- MODULE Spec2Model ----------------------------
(***************************************************************************)
(* Transfer coordinator, transfer state machine, priority queue and        *)
(* session store of the resilient file-transfer engine.                    *)
(*                                                                         *)
(* Tasks (API calls and transfer workers) are cut at their await points;   *)
(* every store call is a load step followed by a save step, as in          *)
(* session/store.rs, where load and save are two separate SQL statements.  *)
(***************************************************************************)
EXTENDS Integers, Sequences, FiniteSets, Bags, TLC

----------------------------------------------------------------------------
(* Bounds of the model *)

MaxSessions == 2        \* send_file calls that get as far as creating a session
MaxWorkers == 2         \* worker tasks spawned in one behaviour
MaxFileChunks == 2      \* largest file, in units of chunk_size
MaxCrashes == 1         \* process restarts in one behaviour
MaxCalls == 3           \* API calls made in one behaviour
MaxClients == 2         \* tasks calling the session store directly
MaxStoreCalls == 2      \* store calls each of them makes
MaxSeq == 2             \* largest chunk number passed to a store call
MaxQueueCalls == 2      \* queue calls each task makes
QueueCapacity == 2      \* max_capacity of the queue those tasks share
MaxBps == 10            \* largest total_bps passed to allocate_bandwidth
MaxPending == 1         \* largest pending counter when bandwidth is allocated
MaxParitySteps == 6     \* min_parity and max_parity go up to 5 times this
ShardChunkSize == 2     \* chunk_size of the ChunkManager that splits and reconstructs
ShardData == 2          \* its data_shards
ShardParity == 2        \* its parity_shards
MaxByte == 2            \* largest byte value in a file
MaxFileLen == 4         \* longest file, in bytes
MaxCopies == 2          \* copies of one intact shard handed to reconstruct_file
MaxOverlap == 2         \* tasks calling send_file at the same time
MaxRecordCalls == 2     \* record_success / record_loss calls each task makes
MaxWindowBack == 2      \* how far below the window size the sample count starts
MaxRelayBytes == 3      \* max_bytes of the relay storage
MaxChunkBytes == 2      \* largest chunk handed to store
MaxRelayClock == 3      \* the clock of the relay runs from 0 to this, in milliseconds
RelayHoldTime == 1      \* default_hold_time of the relay storage, in milliseconds
MaxRelayStores == 4     \* store calls made on the relay storage

(* Program configuration *)

ConfigData == 10        \* ChunkManager::new(_, 10, 3)
ConfigParity == 3
MaxCapacity == 4        \* PriorityQueue::new(max_capacity)

Files == {"a", "b"}
SessionIds == 1..MaxSessions
WorkerIds == 1..MaxWorkers
SmIds == 1..(MaxSessions + MaxWorkers)
Callers == {1}
ClientIds == 1..MaxClients
None == 0

Priorities == {"Critical", "High", "Normal"}

----------------------------------------------------------------------------
(* coordinator/types.rs, session/types.rs: states and statuses *)

TState(tag, reason) == [tag |-> tag, reason |-> reason]
Idle == TState("Idle", "")
Preparing == TState("Preparing", "")
Transferring == TState("Transferring", "")
Completing == TState("Completing", "")
TCompleted == TState("Completed", "")
UserRequested == "User requested"
NetworkFailureReason == "Network failure on path: default"
CancelledByUser == "Cancelled by user"

is_paused(st) == st.tag = "Paused"
is_terminal(st) == st.tag \in {"Completed", "Failed"}

SStatus(tag, reason) == [tag |-> tag, reason |-> reason]
Initializing == SStatus("Initializing", "")
Active == SStatus("Active", "")
Paused == SStatus("Paused", "")
Completed == SStatus("Completed", "")
Failed(reason) == SStatus("Failed", reason)

(* A variant of is_resumable that also lets a running session through *)
is_resumable_or_active(status) == status.tag \in {"Paused", "Failed", "Active"}

is_resumable(status) == status.tag \in {"Paused", "Failed"}
is_completed(status) == status.tag = "Completed"

Events == {"Start", "ChunkCompleted", "ChunkFailed", "Pause", "Resume", "Cancel",
           "NetworkFailure", "NetworkRecovered", "TransferComplete"}

(* Display strings of the errors a worker can return (coordinator/error.rs) *)
ErrTransferNotFound == "Transfer not found"
ErrInvalidStateTransition == "Invalid state transition"
ErrQueueFull == "Queue error: Queue is full"
ErrConnection == "Network error: connection failed"

----------------------------------------------------------------------------
(* coordinator/state_machine.rs: transition.  The result is the new state, *)
(* or ok = FALSE with the state unchanged.                                 *)

(* A guard that lets NetworkRecovered through from any pause *)
ReasonContainsAnything(reason) == TRUE

ReasonContainsNetworkFailure(reason) == reason = NetworkFailureReason

TransitionOk(st) == [ok |-> TRUE, state |-> st]
TransitionErr(st) == [ok |-> FALSE, state |-> st]

transition(st, ev) ==
    CASE st.tag = "Idle" /\ ev = "Start" -> TransitionOk(Preparing)
      [] st.tag = "Preparing" /\ ev = "ChunkCompleted" -> TransitionOk(Transferring)
      [] st.tag = "Transferring" /\ ev = "ChunkCompleted" -> TransitionOk(Transferring)
      [] st.tag = "Transferring" /\ ev = "ChunkFailed" -> TransitionOk(Transferring)
      [] st.tag = "Transferring" /\ ev = "Pause" -> TransitionOk(TState("Paused", UserRequested))
      [] st.tag = "Paused" /\ ev = "Resume" -> TransitionOk(Transferring)
      [] st.tag = "Transferring" /\ ev = "NetworkFailure" ->
             TransitionOk(TState("Paused", NetworkFailureReason))
      [] st.tag = "Paused" /\ ev = "NetworkRecovered" /\ ReasonContainsNetworkFailure(st.reason) ->
             TransitionOk(Transferring)
      [] st.tag = "Transferring" /\ ev = "TransferComplete" -> TransitionOk(Completing)
      [] st.tag = "Completing" -> TransitionOk(TCompleted)
      [] st.tag # "Completing" /\ ev = "Cancel" -> TransitionOk(TState("Failed", CancelledByUser))
      [] OTHER -> TransitionErr(st)

----------------------------------------------------------------------------
(* chunk/manager.rs: split_file, on a file of k raw data chunks.           *)

CeilDiv(a, b) == (a + b - 1) \div b
Max2(a, b) == IF a >= b THEN a ELSE b

split_file(k) ==
    LET use_adaptive == k < ConfigData \div 2
        adaptive_data == Max2(k, 1)
        adaptive_parity == Max2(CeilDiv(adaptive_data * ConfigParity, ConfigData), 1)
        d == IF use_adaptive THEN adaptive_data ELSE ConfigData
        p == IF use_adaptive THEN adaptive_parity ELSE ConfigParity
        total == IF k = 0 THEN 0 ELSE d + p
    IN  [total_chunks |-> total, data_chunks |-> d, parity_chunks |-> p]

Chunk(f, n, prio) == [file_id |-> f, sequence_number |-> n, priority |-> prio]

----------------------------------------------------------------------------
(* session/types.rs: SessionState *)

NewSession(f, manifest, prio, recv) ==
    [file_id |-> f,
     total_chunks |-> manifest.total_chunks,
     data_chunks |-> manifest.data_chunks,
     priority |-> prio,
     receiver_addr |-> recv,
     completed_chunks |-> {},
     failed_chunks |-> {},
     status |-> Initializing]

is_complete(state) == Cardinality(state.completed_chunks) >= state.data_chunks

mark_completed(state, n) ==
    [state EXCEPT !.completed_chunks = @ \cup {n}, !.failed_chunks = @ \ {n}]

mark_failed(state, n) ==
    [state EXCEPT !.failed_chunks = @ \cup {n}]

(* session/store.rs: what each call saves, given the state it loaded *)

(* Variants of mark_chunk_completed with a fault: promotion only when every *)
(* shard, parity included, is recorded; and promotion decided on the row   *)
(* as loaded, before the chunk is inserted.                                *)
mark_chunk_completed_all_shards(loaded, n) ==
    LET s1 == mark_completed(loaded, n)
    IN  IF Cardinality(s1.completed_chunks) >= s1.total_chunks /\ ~is_completed(s1.status)
        THEN [s1 EXCEPT !.status = Completed]
        ELSE s1

mark_chunk_completed_check_first(loaded, n) ==
    LET s1 == mark_completed(loaded, n)
    IN  IF is_complete(loaded) /\ ~is_completed(loaded.status)
        THEN [s1 EXCEPT !.status = Completed]
        ELSE s1

mark_chunk_completed_saved(loaded, n) ==
    LET s1 == mark_completed(loaded, n)
    IN  IF is_complete(s1) /\ ~is_completed(s1.status)
        THEN [s1 EXCEPT !.status = Completed]
        ELSE s1

mark_chunk_failed_saved(loaded, n) == mark_failed(loaded, n)

update_status_saved(loaded, status) == [loaded EXCEPT !.status = status]

(* ResumeInfo::from_state: can_resume is read off the status.  The record  *)
(* also carries remaining = total_chunks - |completed| on u32, which no    *)
(* caller modelled here reads; in Spec the completed set never outgrows    *)
(* total_chunks, so that subtraction stays in range.                       *)
can_resume(state) == is_resumable(state.status)

----------------------------------------------------------------------------
(* priority/queue.rs *)

priority_to_index(prio) ==
    CASE prio = "Critical" -> 0
      [] prio = "High" -> 1
      [] prio = "Normal" -> 2

EmptyQueues == [i \in 0..2 |-> EmptyBag]

(* The three pending counters of QueueStats::default() *)
EmptyStats == [i \in 0..2 |-> 0]

(* lines 48-56 of enqueue and 84-89 of dequeue: the counter of the level   *)
(* goes up by one, or down by one and not below zero                       *)
stats_enqueued(st, idx) == [st EXCEPT ![idx] = @ + 1]
stats_dequeued(st, idx) == [st EXCEPT ![idx] = IF @ = 0 THEN 0 ELSE @ - 1]

total_pending(qs) == BagCardinality(qs[0]) + BagCardinality(qs[1]) + BagCardinality(qs[2])

QueueIsFull(qs) == total_pending(qs) >= MaxCapacity

enqueue(qs, chunk) ==
    [qs EXCEPT ![priority_to_index(chunk.priority)] = @ (+) SetToBag({chunk})]

(* The chunks one pop of heap i can return: those of the lowest sequence   *)
(* number (QueuedChunk's Ord compares sequence numbers only).              *)
HeapTop(heap) ==
    {c \in BagToSet(heap) :
        \A d \in BagToSet(heap) : c.sequence_number <= d.sequence_number}

FirstNonEmpty(qs) ==
    IF qs[0] # EmptyBag THEN 0 ELSE IF qs[1] # EmptyBag THEN 1 ELSE 2

DequeueChoices(qs) == HeapTop(qs[FirstNonEmpty(qs)])

dequeue(qs, chunk) ==
    [qs EXCEPT ![priority_to_index(chunk.priority)] = @ (-) SetToBag({chunk})]

(* The enqueue loop of transfer_worker: chunks in sequence order, stopping *)
(* at the first QueueFull.                                                 *)
RECURSIVE EnqueueAll(_, _, _)
EnqueueAll(qs, st, chunks) ==
    IF chunks = <<>> THEN [ok |-> TRUE, queues |-> qs, stats |-> st]
    ELSE IF QueueIsFull(qs) THEN [ok |-> FALSE, queues |-> qs, stats |-> st]
    ELSE EnqueueAll(enqueue(qs, Head(chunks)),
                    stats_enqueued(st, priority_to_index(Head(chunks).priority)),
                    Tail(chunks))

----------------------------------------------------------------------------
(* State *)

VARIABLES
    fs,                 \* file path -> number of raw data chunks in the file
    session_store,      \* session id -> persisted SessionState (the sessions table)
    sm,                 \* state machine id -> TransferState (the shared Arc<RwLock<_>>)
    active_transfers,   \* session id -> state machine id
    recent_transfers,   \* session id -> state machine id
    file_to_session,    \* file id -> session id
    queues,             \* priority index -> bag of queued chunks
    workers,            \* worker id -> task state of a spawned transfer_worker
    calls,              \* caller -> the API call it has in progress or last returned
    crashes,            \* process restarts so far
    api_calls,          \* API calls made so far
    clients,            \* client id -> the direct store or state-machine call it makes
    stats               \* priority index -> pending counter of the queue's QueueStats

vars == <<fs, session_store, sm, active_transfers, recent_transfers,
          file_to_session, queues, workers, calls, crashes, api_calls, clients, stats>>

EmptyMap == [x \in {} |-> None]
Remove(f, k) == [x \in (DOMAIN f) \ {k} |-> f[x]]
Put(f, k, v) == [x \in (DOMAIN f) \cup {k} |-> IF x = k THEN v ELSE f[x]]

IdleCall ==
    [op |-> "none", pc |-> "idle", sid |-> None, file |-> "", priority |-> "",
     receiver |-> FALSE, loaded |-> <<>>, status_seen |-> "", result |-> "",
     again |-> FALSE]

Returned(op, sid, result) ==
    [IdleCall EXCEPT !.op = op, !.pc = "ret", !.sid = sid, !.result = result]

(* A task that calls the session store, or a state machine, directly *)
IdleClient ==
    [op |-> "none", pc |-> "idle", sid |-> None, n |-> None, status |-> Initializing,
     loaded |-> <<>>, saved |-> <<>>, prev |-> <<>>, made |-> 0]
NoClients == [k \in ClientIds |-> IdleClient]

CanCall(c) == calls[c].pc \in {"idle", "ret"} /\ api_calls < MaxCalls

Live(w) == workers[w].pc # "done"
WorkersOf(s) == {w \in DOMAIN workers : workers[w].session_id = s}
LiveWorkersOf(s) == {w \in WorkersOf(s) : Live(w)}

(* Worker tasks that calls in progress are still going to spawn *)
PendingSpawns == Cardinality({c \in DOMAIN calls : calls[c].pc \notin {"idle", "ret"}
                                              /\ calls[c].op \in {"send_file", "resume"}})
CanSpawn == Cardinality(DOMAIN workers) + PendingSpawns < MaxWorkers

(* All chunks split_file returns for file f, in sequence order *)
ChunksOf(f, prio) ==
    [i \in 1..split_file(fs[f]).total_chunks |-> Chunk(f, i - 1, prio)]

Spawn(s, origin, chunks, recv, f) ==
    Put(workers, Cardinality(DOMAIN workers) + 1,
        [session_id |-> s, origin |-> origin, file_id |-> f, pc |-> "start",
         sm |-> None, chunks |-> chunks, receiver |-> recv,
         total_chunks |-> session_store[s].total_chunks,
         chunks_to_transfer |-> {}, chunk |-> <<>>, loaded |-> <<>>, err |-> ""])

Init ==
    /\ fs = [f \in Files |-> 1]
    /\ session_store = EmptyMap
    /\ sm = EmptyMap
    /\ active_transfers = EmptyMap
    /\ recent_transfers = EmptyMap
    /\ file_to_session = EmptyMap
    /\ queues = EmptyQueues
    /\ stats = EmptyStats
    /\ workers = EmptyMap
    /\ calls = [c \in Callers |-> IdleCall]
    /\ crashes = 0
    /\ api_calls = 0
    /\ clients = NoClients

----------------------------------------------------------------------------
(* coordinator.rs: send_file *)

(* A duplicate check that never finds the file *)
contains_key_never(f) == FALSE

(* line 128: file_to_session.contains_key(&file_id) *)
contains_key(f) == f \in DOMAIN file_to_session

(* lines 126-130: the duplicate check *)
SendFileCheck(c, f, prio, recv) ==
    /\ CanCall(c)
    /\ api_calls' = api_calls + 1
    /\ CanSpawn
    /\ Cardinality(DOMAIN session_store) < MaxSessions
    /\ IF contains_key(f)
       THEN calls' = [calls EXCEPT ![c] =
                [Returned("send_file", None, "AlreadyInProgress") EXCEPT !.file = f]]
       ELSE calls' = [calls EXCEPT ![c] =
                [IdleCall EXCEPT !.op = "send_file", !.pc = "persist", !.file = f,
                                 !.priority = prio, !.receiver = recv]]
    /\ UNCHANGED <<fs, session_store, sm, active_transfers, recent_transfers,
                   file_to_session, queues, stats, workers, crashes,
                   clients>>

(* lines 132-152: split_file, save the new session, update_status(Active). *)
(* The session id is fresh, so no other task can touch this row yet.       *)
SendFilePersist(c) ==
    /\ calls[c].op = "send_file" /\ calls[c].pc = "persist"
    /\ LET sid == Cardinality(DOMAIN session_store) + 1
           manifest == split_file(fs[calls[c].file])
           session == NewSession(calls[c].file, manifest, calls[c].priority, calls[c].receiver)
       IN  /\ session_store' = Put(session_store, sid, update_status_saved(session, Active))
           /\ calls' = [calls EXCEPT ![c].pc = "register", ![c].sid = sid]
    /\ UNCHANGED <<fs, sm, active_transfers, recent_transfers, file_to_session,
                   queues, stats, workers, crashes, api_calls, clients>>

(* lines 154-189: new state machine, Start, register in the three maps, spawn *)
SendFileRegister(c) ==
    /\ calls[c].op = "send_file" /\ calls[c].pc = "register"
    /\ LET sid == calls[c].sid
           f == calls[c].file
           m == Cardinality(DOMAIN sm) + 1
       IN  /\ sm' = Put(sm, m, transition(Idle, "Start").state)
           /\ active_transfers' = Put(active_transfers, sid, m)
           /\ recent_transfers' = Put(recent_transfers, sid, m)
           /\ file_to_session' = Put(file_to_session, f, sid)
           /\ workers' = Spawn(sid, "send", ChunksOf(f, calls[c].priority),
                               calls[c].receiver, f)
           /\ calls' = [calls EXCEPT ![c] = Returned("send_file", sid, "Ok")]
    /\ UNCHANGED <<fs, session_store, queues, stats, crashes, api_calls, clients>>

----------------------------------------------------------------------------
(* coordinator.rs: pause_transfer *)

(* lines 278-283: look the machine up, transition(Pause) *)
PauseTransition(c, s) ==
    /\ CanCall(c)
    /\ api_calls' = api_calls + 1
    /\ s \in DOMAIN session_store
    /\ IF s \notin DOMAIN active_transfers
       THEN /\ calls' = [calls EXCEPT ![c] = Returned("pause", s, "TransferNotFound")]
            /\ sm' = sm
       ELSE LET m == active_transfers[s]
                r == transition(sm[m], "Pause")
            IN  IF r.ok
                THEN /\ sm' = [sm EXCEPT ![m] = r.state]
                     /\ calls' = [calls EXCEPT ![c] =
                            [IdleCall EXCEPT !.op = "pause", !.pc = "load", !.sid = s]]
                ELSE /\ sm' = sm
                     /\ calls' = [calls EXCEPT ![c] =
                            Returned("pause", s, "InvalidStateTransition")]
    /\ UNCHANGED <<fs, session_store, active_transfers, recent_transfers,
                   file_to_session, queues, stats, workers, crashes,
                   clients>>

(* store.rs lines 131-133: the load of an update_status made by an API call *)
CallLoad(c) ==
    /\ calls[c].pc = "load"
    /\ calls' = [calls EXCEPT ![c].pc = "save",
                              ![c].loaded = <<session_store[calls[c].sid]>>]
    /\ UNCHANGED <<fs, session_store, sm, active_transfers, recent_transfers,
                   file_to_session, queues, stats, workers, crashes, api_calls,
                   clients>>

(* lines 284-288, store.rs lines 135-137: save status Paused, return Ok *)
PauseSave(c) ==
    /\ calls[c].op = "pause" /\ calls[c].pc = "save"
    /\ session_store' = [session_store EXCEPT ![calls[c].sid] =
                            update_status_saved(calls[c].loaded[1], Paused)]
    /\ calls' = [calls EXCEPT ![c] = Returned("pause", calls[c].sid, "Ok")]
    /\ UNCHANGED <<fs, sm, active_transfers, recent_transfers, file_to_session,
                   queues, stats, workers, crashes, api_calls, clients>>

----------------------------------------------------------------------------
(* coordinator.rs: cancel_transfer *)

(* The caller's last call was a cancel_transfer(s) that returned Ok *)
CancelledOk(c, s) ==
    /\ calls[c].op = "cancel" /\ calls[c].pc = "ret"
    /\ calls[c].sid = s /\ calls[c].result = "Ok"

(* A cancel_transfer that, like pause_transfer, gives up when the session  *)
(* has no machine in the active map                                        *)
CancelWithoutMachineNotFound(s) == Returned("cancel", s, "TransferNotFound")

(* lines 293-297: no machine in the active map, the if-let is skipped and  *)
(* the call goes on to update_status                                       *)
CancelWithoutMachine(s) == [IdleCall EXCEPT !.op = "cancel", !.pc = "load", !.sid = s]

(* lines 293-295: transition(Cancel) on the machine in the active map, if  *)
(* any.  again records that this call repeats the caller's last one.       *)
CancelTransition(c, s) ==
    /\ CanCall(c)
    /\ api_calls' = api_calls + 1
    /\ s \in DOMAIN session_store
    /\ IF s \in DOMAIN active_transfers
       THEN LET m == active_transfers[s]
                r == transition(sm[m], "Cancel")
            IN  IF r.ok
                THEN /\ sm' = [sm EXCEPT ![m] = r.state]
                     /\ calls' = [calls EXCEPT ![c] =
                            [IdleCall EXCEPT !.op = "cancel", !.pc = "load", !.sid = s,
                                             !.again = CancelledOk(c, s)]]
                ELSE /\ sm' = sm
                     /\ calls' = [calls EXCEPT ![c] =
                            Returned("cancel", s, "InvalidStateTransition")]
       ELSE /\ sm' = sm
            /\ calls' = [calls EXCEPT ![c] =
                   [CancelWithoutMachine(s) EXCEPT !.again = CancelledOk(c, s)]]
    /\ UNCHANGED <<fs, session_store, active_transfers, recent_transfers,
                   file_to_session, queues, stats, workers, crashes,
                   clients>>

(* lines 297-305: save status Failed("Cancelled by user"), remove from the *)
(* active map, return Ok                                                   *)
CancelSave(c) ==
    /\ calls[c].op = "cancel" /\ calls[c].pc = "save"
    /\ session_store' = [session_store EXCEPT ![calls[c].sid] =
                            update_status_saved(calls[c].loaded[1], Failed(CancelledByUser))]
    /\ active_transfers' = Remove(active_transfers, calls[c].sid)
    /\ calls' = [calls EXCEPT ![c] =
           [Returned("cancel", calls[c].sid, "Ok") EXCEPT !.again = calls[c].again]]
    /\ UNCHANGED <<fs, sm, recent_transfers, file_to_session, queues, stats, workers, crashes, api_calls,
                   clients>>

----------------------------------------------------------------------------
(* coordinator.rs: resume_transfer *)

(* lines 195-220: load, can_resume, get or create the machine, and         *)
(* send_event(Resume), which queues the event on the channel of the clone  *)
(* and leaves the shared state as it is.                                   *)
send_event(st, ev) == TransitionOk(st)

ResumeCheck(c, s) ==
    /\ CanCall(c)
    /\ api_calls' = api_calls + 1
    /\ CanSpawn
    /\ s \in DOMAIN session_store
    /\ IF ~can_resume(session_store[s])
       THEN /\ calls' = [calls EXCEPT ![c] =
                   [Returned("resume", s, "CannotResume") EXCEPT
                       !.status_seen = session_store[s].status.tag]]
            /\ UNCHANGED <<sm, active_transfers>>
       ELSE LET fresh == s \notin DOMAIN active_transfers
                m == IF fresh THEN Cardinality(DOMAIN sm) + 1 ELSE active_transfers[s]
                st == IF fresh THEN Idle ELSE sm[m]
            IN  /\ sm' = Put(sm, m, send_event(st, "Resume").state)
                /\ active_transfers' = Put(active_transfers, s, m)
                /\ calls' = [calls EXCEPT ![c] =
                       [IdleCall EXCEPT !.op = "resume", !.pc = "load", !.sid = s,
                                        !.status_seen = session_store[s].status.tag]]
    /\ UNCHANGED <<fs, session_store, recent_transfers, file_to_session, queues, stats,
                   workers, crashes, clients>>

(* lines 223-273: save status Active, re-split the file, spawn a worker    *)
ResumeSpawn(c) ==
    /\ calls[c].op = "resume" /\ calls[c].pc = "save"
    /\ LET s == calls[c].sid
           session == calls[c].loaded[1]
           f == session.file_id
           chunks == IF f \in DOMAIN fs THEN ChunksOf(f, session.priority) ELSE <<>>
       IN  /\ session_store' = [session_store EXCEPT ![s] =
                                   update_status_saved(session, Active)]
           /\ workers' = Spawn(s, "resume", chunks, session.receiver_addr, f)
           /\ calls' = [calls EXCEPT ![c] =
                  [Returned("resume", s, "Ok") EXCEPT !.status_seen = calls[c].status_seen]]
    /\ UNCHANGED <<fs, sm, active_transfers, recent_transfers, file_to_session,
                   queues, stats, crashes, api_calls, clients>>

----------------------------------------------------------------------------
(* coordinator.rs: transfer_worker, and the error arm of the task that     *)
(* send_file spawns around it                                              *)

(* A worker that returns Err(e): the task spawned by send_file (lines      *)
(* 177-186) goes on to record the failure, the one spawned by              *)
(* resume_transfer (lines 268-270) only logs it.                           *)
WorkerErr(w, e) ==
    [workers[w] EXCEPT !.pc = IF workers[w].origin = "send" THEN "err_load" ELSE "done",
                       !.err = e, !.chunks = <<>>, !.chunk = <<>>, !.loaded = <<>>]

Remaining(state) == {n \in 0..(state.total_chunks - 1) : n \notin state.completed_chunks}

NotCompleted(chunks, state) ==
    SelectSeq(chunks, LAMBDA ch : ch.sequence_number \notin state.completed_chunks)

(* lines 658-686: machine lookup, load, the enqueue loop, first transition *)
WorkerStart(w) ==
    /\ w \in DOMAIN workers
    /\ workers[w].pc = "start"
    /\ LET s == workers[w].session_id IN
       IF s \notin DOMAIN active_transfers
       THEN /\ workers' = [workers EXCEPT ![w] = WorkerErr(w, ErrTransferNotFound)]
            /\ UNCHANGED <<sm, queues, stats>>
       ELSE LET m == active_transfers[s]
                session == session_store[s]
                chunks_to_transfer == Remaining(session)
                enq == EnqueueAll(queues, stats, NotCompleted(workers[w].chunks, session))
                t == transition(sm[m], "ChunkCompleted")
            IN  /\ queues' = enq.queues
                /\ stats' = enq.stats
                /\ IF ~enq.ok
                   THEN /\ workers' = [workers EXCEPT ![w] = WorkerErr(w, ErrQueueFull)]
                        /\ sm' = sm
                   ELSE IF chunks_to_transfer # {} /\ ~t.ok
                   THEN /\ workers' = [workers EXCEPT ![w] =
                                          WorkerErr(w, ErrInvalidStateTransition)]
                        /\ sm' = sm
                   ELSE /\ sm' = IF chunks_to_transfer # {}
                                 THEN [sm EXCEPT ![m] = t.state] ELSE sm
                        /\ workers' = [workers EXCEPT ![w] =
                               [@ EXCEPT !.sm = m, !.chunks = <<>>,
                                         !.chunks_to_transfer = chunks_to_transfer,
                                         !.pc = IF workers[w].receiver
                                                THEN "connect" ELSE "loop"]]
    /\ UNCHANGED <<fs, session_store, active_transfers, recent_transfers,
                   file_to_session, calls, crashes, api_calls,
                   clients>>

(* lines 689-706: transport.connect succeeds or fails *)
WorkerConnect(w, connected) ==
    /\ w \in DOMAIN workers
    /\ workers[w].pc = "connect"
    /\ LET m == workers[w].sm
           t == transition(sm[m], "NetworkFailure")
       IN  IF connected
           THEN /\ workers' = [workers EXCEPT ![w].pc = "loop"]
                /\ sm' = sm
           ELSE IF t.ok
           THEN /\ sm' = [sm EXCEPT ![m] = t.state]
                /\ workers' = [workers EXCEPT ![w] = WorkerErr(w, ErrConnection)]
           ELSE /\ sm' = sm
                /\ workers' = [workers EXCEPT ![w] =
                                  WorkerErr(w, ErrInvalidStateTransition)]
    /\ UNCHANGED <<fs, session_store, active_transfers, recent_transfers,
                   file_to_session, queues, stats, calls, crashes, api_calls,
                   clients>>

(* lines 709-726: the loop condition, the pause / terminal check and the   *)
(* dequeue.  On QueueEmpty the worker sleeps 100 ms and comes back to this *)
(* point with nothing changed, a stuttering step.                          *)
WorkerLoopTop(w) ==
    /\ w \in DOMAIN workers
    /\ workers[w].pc = "loop"
    /\ LET current_state == sm[workers[w].sm] IN
       IF workers[w].chunks_to_transfer = {} \/ is_terminal(current_state)
       THEN /\ workers' = [workers EXCEPT ![w].pc = "final"]
            /\ queues' = queues /\ stats' = stats
       ELSE IF is_paused(current_state)
       THEN /\ workers' = [workers EXCEPT ![w].pc = "paused_load"]
            /\ queues' = queues /\ stats' = stats
       ELSE \E chunk \in DequeueChoices(queues) :
            /\ queues' = dequeue(queues, chunk)
            /\ stats' = stats_dequeued(stats, priority_to_index(chunk.priority))
            /\ workers' = [workers EXCEPT ![w].chunk = <<chunk>>,
                                          ![w].pc = IF workers[w].receiver
                                                    THEN "send" ELSE "mark_load"]
    /\ UNCHANGED <<fs, session_store, sm, active_transfers, recent_transfers,
                   file_to_session, calls, crashes, api_calls,
                   clients>>

(* lines 729-738: send_with_retry over the connection succeeds or fails *)
WorkerSend(w, sent) ==
    /\ w \in DOMAIN workers
    /\ workers[w].pc = "send"
    /\ workers' = [workers EXCEPT ![w].pc = IF sent THEN "mark_load" ELSE "fail_load"]
    /\ UNCHANGED <<fs, session_store, sm, active_transfers, recent_transfers,
                   file_to_session, queues, stats, calls, crashes, api_calls,
                   clients>>

(* store.rs: the load of a store call made by the worker task *)
WorkerLoad(w) ==
    /\ w \in DOMAIN workers
    /\ workers[w].pc \in {"mark_load", "fail_load", "paused_load", "err_load"}
    /\ workers' = [workers EXCEPT
           ![w].loaded = <<session_store[workers[w].session_id]>>,
           ![w].pc = CASE workers[w].pc = "mark_load" -> "mark_save"
                       [] workers[w].pc = "fail_load" -> "fail_save"
                       [] workers[w].pc = "paused_load" -> "paused_save"
                       [] workers[w].pc = "err_load" -> "err_save"]
    /\ UNCHANGED <<fs, session_store, sm, active_transfers, recent_transfers,
                   file_to_session, queues, stats, calls, crashes, api_calls,
                   clients>>

(* lines 734-737: mark_chunk_failed saves, then continue *)
WorkerMarkFailed(w) ==
    /\ w \in DOMAIN workers
    /\ workers[w].pc = "fail_save"
    /\ session_store' = [session_store EXCEPT ![workers[w].session_id] =
           mark_chunk_failed_saved(workers[w].loaded[1], workers[w].chunk[1].sequence_number)]
    /\ workers' = [workers EXCEPT ![w].pc = "loop", ![w].chunk = <<>>, ![w].loaded = <<>>]
    /\ UNCHANGED <<fs, sm, active_transfers, recent_transfers, file_to_session,
                   queues, stats, calls, crashes, api_calls, clients>>

(* lines 747-764: mark_chunk_completed_with_bytes saves; ChunkCompleted;   *)
(* retain; TransferComplete when the list is empty.  session/store.rs      *)
(* holds mark_chunk_completed only; the _with_bytes call is taken to make  *)
(* the same change to the completed set, the failed set and the status.    *)
WorkerMarkCompleted(w) ==
    /\ w \in DOMAIN workers
    /\ workers[w].pc = "mark_save"
    /\ LET m == workers[w].sm
           chunk_num == workers[w].chunk[1].sequence_number
           t1 == transition(sm[m], "ChunkCompleted")
           rest == workers[w].chunks_to_transfer \ {chunk_num}
           t2 == transition(t1.state, "TransferComplete")
       IN  /\ session_store' = [session_store EXCEPT ![workers[w].session_id] =
                  mark_chunk_completed_saved(workers[w].loaded[1], chunk_num)]
           /\ IF ~t1.ok \/ (rest = {} /\ ~t2.ok)
              THEN /\ sm' = sm
                   /\ workers' = [workers EXCEPT ![w] =
                          [WorkerErr(w, ErrInvalidStateTransition) EXCEPT
                              !.chunks_to_transfer = IF t1.ok THEN rest ELSE @]]
              ELSE /\ sm' = [sm EXCEPT ![m] = IF rest = {} THEN t2.state ELSE t1.state]
                   /\ workers' = [workers EXCEPT ![w].chunks_to_transfer = rest,
                                                 ![w].chunk = <<>>, ![w].loaded = <<>>,
                                                 ![w].pc = IF rest = {} THEN "final"
                                                           ELSE "loop"]
    /\ UNCHANGED <<fs, active_transfers, recent_transfers, file_to_session,
                   queues, stats, calls, crashes, api_calls, clients>>

(* lines 713-716: update_status(Paused) saves, then break *)
WorkerPausedSave(w) ==
    /\ w \in DOMAIN workers
    /\ workers[w].pc = "paused_save"
    /\ session_store' = [session_store EXCEPT ![workers[w].session_id] =
           update_status_saved(workers[w].loaded[1], Paused)]
    /\ workers' = [workers EXCEPT ![w].pc = "final", ![w].loaded = <<>>]
    /\ UNCHANGED <<fs, sm, active_transfers, recent_transfers, file_to_session,
                   queues, stats, calls, crashes, api_calls, clients>>

(* lines 780-795: load; on status Completed fire TransferComplete and      *)
(* remove the session from the active map and the file mapping             *)
WorkerFinish(w) ==
    /\ w \in DOMAIN workers
    /\ workers[w].pc = "final"
    /\ LET s == workers[w].session_id
           m == workers[w].sm
           session == session_store[s]
           t == transition(sm[m], "TransferComplete")
       IN  IF session.status # Completed
           THEN /\ workers' = [workers EXCEPT ![w].pc = "done"]
                /\ UNCHANGED <<sm, active_transfers, file_to_session>>
           ELSE IF ~t.ok
           THEN /\ workers' = [workers EXCEPT ![w] =
                                  WorkerErr(w, ErrInvalidStateTransition)]
                /\ UNCHANGED <<sm, active_transfers, file_to_session>>
           ELSE /\ sm' = [sm EXCEPT ![m] = t.state]
                /\ active_transfers' = Remove(active_transfers, s)
                /\ file_to_session' = Remove(file_to_session, session.file_id)
                /\ workers' = [workers EXCEPT ![w].pc = "done"]
    /\ UNCHANGED <<fs, session_store, recent_transfers, queues, stats, calls, crashes, api_calls,
                   clients>>

(* lines 180-185: update_status(Failed(e)) saves; remove from the active   *)
(* map and the file mapping                                                *)
WorkerErrSave(w) ==
    /\ w \in DOMAIN workers
    /\ workers[w].pc = "err_save"
    /\ session_store' = [session_store EXCEPT ![workers[w].session_id] =
           update_status_saved(workers[w].loaded[1], Failed(workers[w].err))]
    /\ active_transfers' = Remove(active_transfers, workers[w].session_id)
    /\ file_to_session' = Remove(file_to_session, workers[w].file_id)
    /\ workers' = [workers EXCEPT ![w].pc = "done", ![w].loaded = <<>>]
    /\ UNCHANGED <<fs, sm, recent_transfers, queues, stats, calls, crashes, api_calls,
                   clients>>

----------------------------------------------------------------------------
(* A process crash and restart: the sessions table survives, every task    *)
(* and every in-memory map of TransferCoordinator::new is gone.            *)

Killed(wr) ==
    [wr EXCEPT !.pc = "done", !.err = "killed", !.chunks = <<>>, !.chunk = <<>>,
               !.loaded = <<>>, !.sm = None, !.chunks_to_transfer = {}]

Crash ==
    /\ crashes < MaxCrashes
    /\ DOMAIN session_store # {}
    /\ crashes' = crashes + 1
    /\ sm' = EmptyMap
    /\ active_transfers' = EmptyMap
    /\ recent_transfers' = EmptyMap
    /\ file_to_session' = EmptyMap
    /\ queues' = EmptyQueues
    /\ stats' = EmptyStats
    /\ workers' = [w \in DOMAIN workers |-> Killed(workers[w])]
    /\ calls' = [c \in Callers |-> IdleCall]
    /\ UNCHANGED <<fs, session_store, api_calls, clients>>

----------------------------------------------------------------------------
SendPriorities == {"Normal"}

ApiStep ==
    \E c \in Callers :
        \/ \E f \in Files, prio \in SendPriorities, recv \in BOOLEAN :
               SendFileCheck(c, f, prio, recv)
        \/ SendFilePersist(c)
        \/ SendFileRegister(c)
        \/ \E s \in SessionIds : PauseTransition(c, s)
        \/ CallLoad(c)
        \/ PauseSave(c)
        \/ \E s \in SessionIds : CancelTransition(c, s)
        \/ CancelSave(c)
        \/ \E s \in SessionIds : ResumeCheck(c, s)
        \/ ResumeSpawn(c)

WorkerStep(w) ==
    \/ WorkerStart(w)
    \/ \E connected \in BOOLEAN : WorkerConnect(w, connected)
    \/ WorkerLoopTop(w)
    \/ \E sent \in BOOLEAN : WorkerSend(w, sent)
    \/ WorkerLoad(w)
    \/ WorkerMarkFailed(w)
    \/ WorkerMarkCompleted(w)
    \/ WorkerPausedSave(w)
    \/ WorkerFinish(w)
    \/ WorkerErrSave(w)

Next ==
    \/ ApiStep
    \/ \E w \in WorkerIds : WorkerStep(w)
    \/ Crash

Spec == Init /\ [][Next]_vars

----------------------------------------------------------------------------
(* Local-loop transfers only: send_file calls without a receiver address,  *)
(* on files of every size up to MaxFileChunks, and the workers they spawn, *)
(* each of which keeps being scheduled.                                    *)

SendInit ==
    /\ fs \in [Files -> 0..MaxFileChunks]
    /\ session_store = EmptyMap
    /\ sm = EmptyMap
    /\ active_transfers = EmptyMap
    /\ recent_transfers = EmptyMap
    /\ file_to_session = EmptyMap
    /\ queues = EmptyQueues
    /\ stats = EmptyStats
    /\ workers = EmptyMap
    /\ calls = [c \in Callers |-> IdleCall]
    /\ crashes = 0
    /\ api_calls = 0
    /\ clients = NoClients

LocalWorkerStep(w) ==
    \/ WorkerStart(w)
    \/ WorkerLoopTop(w)
    \/ WorkerLoad(w)
    \/ WorkerMarkCompleted(w)
    \/ WorkerFinish(w)
    \/ WorkerErrSave(w)

SendNext ==
    \/ \E c \in Callers :
          \/ \E f \in Files, prio \in SendPriorities : SendFileCheck(c, f, prio, FALSE)
          \/ SendFilePersist(c)
          \/ SendFileRegister(c)
    \/ \E w \in WorkerIds : LocalWorkerStep(w)

SendSpec ==
    /\ SendInit /\ [][SendNext]_vars
    /\ \A w \in WorkerIds : WF_vars(LocalWorkerStep(w))

----------------------------------------------------------------------------
(* Properties of the coordinator *)

Running(w) == workers[w].pc \notin {"done", "err_load", "err_save"}
RunningWorkersOf(s) == {w \in WorkersOf(s) : Running(w)}

(* C1: for every session, at every moment, at most one transfer_worker     *)
(* task is running for it.                                                 *)
C1_OneWorkerPerSession ==
    \A s \in DOMAIN session_store : Cardinality(RunningWorkersOf(s)) <= 1

ResumeReturnedOk(c, s) ==
    /\ calls[c].op = "resume" /\ calls[c].pc = "ret" /\ calls[c].sid = s
    /\ calls[c].result = "Ok"

(* C2: once resume_transfer has returned success on a paused local-loop    *)
(* session (file readable, no later pause or cancel, no other session, no  *)
(* restart) and every task of the session has finished, the state machine  *)
(* and the persisted status are Completed and every shard is recorded.     *)
C2_ResumeCompletes ==
    \A c \in Callers : \A s \in DOMAIN session_store :
        ( /\ ResumeReturnedOk(c, s)
          /\ calls[c].status_seen = "Paused"
          /\ ~session_store[s].receiver_addr
          /\ session_store[s].file_id \in DOMAIN fs
          /\ DOMAIN session_store = {s}
          /\ crashes = 0
          /\ LiveWorkersOf(s) = {} )
        => /\ s \in DOMAIN recent_transfers
           /\ sm[recent_transfers[s]] = TCompleted
           /\ session_store[s].status = Completed
           /\ Remaining(session_store[s]) = {}

(* C3: from the return of a successful pause_transfer until the next API   *)
(* call, the persisted status is Paused and the session is in the active   *)
(* map.                                                                    *)
C3_PauseHolds ==
    \A c \in Callers : \A s \in DOMAIN session_store :
        calls[c] = Returned("pause", s, "Ok")
        => /\ session_store[s].status = Paused
           /\ s \in DOMAIN active_transfers

(* C4: from the return of a successful cancel_transfer until the next API  *)
(* call, the persisted status is Failed("Cancelled by user").              *)
C4_CancelReasonKept ==
    \A c \in Callers : \A s \in DOMAIN session_store :
        calls[c] = Returned("cancel", s, "Ok")
        => session_store[s].status = Failed(CancelledByUser)

IsTerminalStatus(status) == status.tag \in {"Completed", "Failed"}

ResumeSaveStep ==
    \E c \in Callers : calls[c].op = "resume" /\ calls[c].pc = "save"
                       /\ calls'[c].pc = "ret"

(* C5: once a session's persisted status is Completed or Failed, no step   *)
(* other than a resume_transfer changes it.                                *)
C5_TerminalOnce ==
    [][\A s \in DOMAIN session_store :
          (IsTerminalStatus(session_store[s].status) /\ ~ResumeSaveStep)
          => session_store'[s].status = session_store[s].status]_vars

InterruptedByCrash(s) ==
    /\ WorkersOf(s) # {}
    /\ \A w \in WorkersOf(s) : workers[w].err = "killed"

(* C7: resume_transfer on a session that a crash interrupted while its     *)
(* persisted status was Active returns success.                            *)
C7_ResumeAfterCrash ==
    \A c \in Callers : \A s \in DOMAIN session_store :
        ( /\ calls[c].op = "resume" /\ calls[c].pc = "ret" /\ calls[c].sid = s
          /\ calls[c].status_seen = "Active"
          /\ InterruptedByCrash(s) )
        => calls[c].result = "Ok"

TransferDone(s) ==
    /\ s \in DOMAIN session_store
    /\ Remaining(session_store[s]) = {}
    /\ s \in DOMAIN recent_transfers
    /\ sm[recent_transfers[s]] = TCompleted
    /\ s \notin DOMAIN active_transfers
    /\ \A f \in DOMAIN file_to_session : file_to_session[f] # s

(* C6: every session that send_file has started in local-loop mode, never  *)
(* paused or cancelled, eventually has every shard recorded completed, its *)
(* machine in Completed, is out of the active map, still in the recent map *)
(* and out of the file mapping.                                            *)
C6_SendCompletes ==
    \A s \in SessionIds : (s \in DOMAIN recent_transfers) ~> TransferDone(s)

----------------------------------------------------------------------------
(* Properties of the session store *)

(* C8: in every persisted session the completed set and the failed set are *)
(* disjoint.                                                               *)
C8_CompletedFailedDisjoint ==
    \A s \in DOMAIN session_store :
        session_store[s].completed_chunks \cap session_store[s].failed_chunks = {}

(* C9: in every persisted session the completed set has at most            *)
(* total_chunks members and each of them is below total_chunks.            *)
C9_CompletedWithinTotal ==
    \A s \in DOMAIN session_store :
        /\ Cardinality(session_store[s].completed_chunks) <= session_store[s].total_chunks
        /\ \A n \in session_store[s].completed_chunks : n < session_store[s].total_chunks

(* A step in which a worker's mark_chunk_completed or mark_chunk_failed    *)
(* saves session s.                                                        *)
MarkSaveStep(s) ==
    \E w \in DOMAIN workers :
        /\ workers[w].session_id = s
        /\ workers[w].pc \in {"mark_save", "fail_save"}
        /\ workers'[w].pc # workers[w].pc

(* C10: store calls on one session take effect as if run one after         *)
(* another: no step drops a sequence number from a session's completed     *)
(* set, and a mark_chunk_completed or mark_chunk_failed leaves the status  *)
(* it finds in the table, except for the promotion to Completed.           *)
C10_StoreCallsSerializable ==
    [][\A s \in DOMAIN session_store :
          /\ session_store[s].completed_chunks \subseteq session_store'[s].completed_chunks
          /\ MarkSaveStep(s) =>
                 session_store'[s].status \in {session_store[s].status, Completed}]_vars

----------------------------------------------------------------------------
(* session/store.rs called directly: one session row, created as           *)
(* SessionState::new creates it for a file of one to MaxFileChunks chunks, *)
(* and tasks that call mark_chunk_completed, mark_chunk_failed and         *)
(* update_status on it, each call a load followed by a save.               *)

StoreSession == 1
StoreStatuses == {Active, Paused, Completed, Failed(CancelledByUser)}
StoreOps == {"mark_chunk_completed", "mark_chunk_failed", "update_status"}

StoreInit ==
    /\ \E k \in 1..MaxFileChunks : fs = [f \in Files |-> k]
    /\ session_store = [s \in {StoreSession} |->
                           NewSession("a", split_file(fs["a"]), "Normal", FALSE)]
    /\ sm = EmptyMap
    /\ active_transfers = EmptyMap
    /\ recent_transfers = EmptyMap
    /\ file_to_session = EmptyMap
    /\ queues = EmptyQueues
    /\ stats = EmptyStats
    /\ workers = EmptyMap
    /\ calls = [c \in Callers |-> IdleCall]
    /\ crashes = 0
    /\ api_calls = 0
    /\ clients = NoClients

(* What a client keeps of the call it has finished *)
LastCall(cl) ==
    IF cl.pc = "ret" THEN <<[op |-> cl.op, n |-> cl.n, saved |-> cl.saved[1]]>> ELSE <<>>

(* store.rs lines 105-107, 121-123, 131-133: the load of a store call *)
StoreCallLoad(k, op, n, status) ==
    /\ clients[k].pc \in {"idle", "ret"}
    /\ clients[k].made < MaxStoreCalls
    /\ clients' = [clients EXCEPT ![k] =
           [op |-> op, pc |-> "save", sid |-> StoreSession,
            n |-> IF op = "update_status" THEN None ELSE n,
            status |-> IF op = "update_status" THEN status ELSE Initializing,
            loaded |-> <<session_store[StoreSession]>>, saved |-> <<>>,
            prev |-> LastCall(clients[k]), made |-> clients[k].made + 1]]
    /\ UNCHANGED <<fs, session_store, sm, active_transfers, recent_transfers,
                   file_to_session, queues, stats, workers, calls, crashes, api_calls>>

StoreSaved(k, row) ==
    /\ session_store' = [session_store EXCEPT ![clients[k].sid] = row]
    /\ clients' = [clients EXCEPT ![k].pc = "ret", ![k].saved = <<row>>]
    /\ UNCHANGED <<fs, sm, active_transfers, recent_transfers, file_to_session,
                   queues, stats, workers, calls, crashes, api_calls>>

(* store.rs lines 109-116 *)
MarkChunkCompletedSave(k) ==
    /\ clients[k].pc = "save" /\ clients[k].op = "mark_chunk_completed"
    /\ StoreSaved(k, mark_chunk_completed_saved(clients[k].loaded[1], clients[k].n))

(* store.rs lines 125-126 *)
MarkChunkFailedSave(k) ==
    /\ clients[k].pc = "save" /\ clients[k].op = "mark_chunk_failed"
    /\ StoreSaved(k, mark_chunk_failed_saved(clients[k].loaded[1], clients[k].n))

(* store.rs lines 135-137 *)
UpdateStatusSave(k) ==
    /\ clients[k].pc = "save" /\ clients[k].op = "update_status"
    /\ StoreSaved(k, update_status_saved(clients[k].loaded[1], clients[k].status))

StoreNext ==
    \E k \in ClientIds :
        \/ \E n \in 0..MaxSeq : StoreCallLoad(k, "mark_chunk_completed", n, Initializing)
        \/ \E n \in 0..MaxSeq : StoreCallLoad(k, "mark_chunk_failed", n, Initializing)
        \/ \E status \in StoreStatuses : StoreCallLoad(k, "update_status", None, status)
        \/ MarkChunkCompletedSave(k)
        \/ MarkChunkFailedSave(k)
        \/ UpdateStatusSave(k)

StoreSpec == StoreInit /\ [][StoreNext]_vars

----------------------------------------------------------------------------
(* Properties of the store calls *)

MarkChunkCompletedReturns(k) ==
    /\ clients[k].pc = "save" /\ clients[k].op = "mark_chunk_completed"
    /\ clients'[k].pc = "ret"

(* C11: when a mark_chunk_completed call returns, the row it leaves has    *)
(* status Completed if its completed set holds at least data_chunks        *)
(* numbers, and otherwise the status the call read.                        *)
C11_AutoPromotion ==
    [][\A k \in ClientIds :
          MarkChunkCompletedReturns(k) =>
              LET loaded == clients[k].loaded[1]
                  saved == session_store'[clients[k].sid]
              IN  IF Cardinality(saved.completed_chunks) >= saved.data_chunks
                  THEN saved.status = Completed
                  ELSE saved.status = loaded.status]_vars

(* A call that found data_chunks - 1 numbers recorded and status Active    *)
(* has returned and left the row Completed.                                *)
C11_Promoted ==
    \E k \in ClientIds :
        /\ clients[k].pc = "ret" /\ clients[k].op = "mark_chunk_completed"
        /\ clients[k].loaded[1].status = Active
        /\ clients[k].loaded[1].completed_chunks # {}
        /\ Cardinality(clients[k].loaded[1].completed_chunks) < clients[k].loaded[1].data_chunks
        /\ session_store[clients[k].sid] = clients[k].saved[1]
        /\ session_store[clients[k].sid].status = Completed

(* The call client k is about to finish repeats its previous call, on the  *)
(* row that call left.                                                     *)
RepeatsLastMark(k) ==
    /\ clients[k].op = "mark_chunk_completed"
    /\ clients[k].prev # <<>>
    /\ clients[k].prev[1].op = "mark_chunk_completed"
    /\ clients[k].prev[1].n = clients[k].n
    /\ clients[k].loaded[1] = clients[k].prev[1].saved

(* C12: mark_chunk_completed(id, s) applied a second time, to the row the  *)
(* first application left, leaves that row as it is: same completed set,   *)
(* same failed set, same status.                                           *)
C12_MarkCompletedIdempotent ==
    [][\A k \in ClientIds :
          (MarkChunkCompletedReturns(k) /\ RepeatsLastMark(k)) =>
              session_store'[clients[k].sid] = clients[k].prev[1].saved]_vars

(* A second application of the same call has returned, on the row the      *)
(* first one left with status Completed.                                   *)
C12_AppliedTwice ==
    \E k \in ClientIds :
        /\ clients[k].pc = "ret" /\ RepeatsLastMark(k)
        /\ clients[k].saved[1].status = Completed
        /\ session_store[clients[k].sid] = clients[k].saved[1]

----------------------------------------------------------------------------
(* Properties of the coordinator's error paths *)

(* The transfer that send_file started for file f is in progress: the      *)
(* worker it spawned is still running.                                     *)
InProgress(f) ==
    \E w \in DOMAIN workers :
        workers[w].origin = "send" /\ workers[w].file_id = f /\ Running(w)

(* This step is the entry of a send_file call by c for file f *)
SendFileCalled(c, f) ==
    /\ api_calls' = api_calls + 1
    /\ calls'[c].op = "send_file" /\ calls'[c].file = f

(* C13: a send_file call for a file whose earlier transfer is in progress  *)
(* returns AlreadyInProgress(file_id) and changes no session row, no map,  *)
(* no queue and no worker.                                                 *)
C13_DuplicateRejected ==
    [][\A c \in Callers, f \in Files :
          (SendFileCalled(c, f) /\ InProgress(f)) =>
              /\ calls'[c] = [Returned("send_file", None, "AlreadyInProgress")
                                 EXCEPT !.file = f]
              /\ UNCHANGED <<session_store, sm, active_transfers, recent_transfers,
                             file_to_session, queues, stats, workers>>]_vars

(* A send_file call has returned AlreadyInProgress for a file whose        *)
(* transfer is in progress.                                                *)
C13_Rejected ==
    \E c \in Callers, f \in Files :
        /\ calls[c] = [Returned("send_file", None, "AlreadyInProgress") EXCEPT !.file = f]
        /\ InProgress(f)

(* C14: no send_file call returns success for a session whose shards could *)
(* not all be enqueued: the QueueFull error reaches the caller instead.    *)
C14_QueueFullSurfaced ==
    \A c \in Callers : \A s \in DOMAIN session_store :
        calls[c] = Returned("send_file", s, "Ok")
        => ~\E w \in WorkersOf(s) : workers[w].err = ErrQueueFull

(* In this step the task of worker w ends, after a failed connect *)
ConnectFailureHandled(w) ==
    /\ workers[w].pc # "done" /\ workers'[w].pc = "done"
    /\ workers'[w].err = ErrConnection

(* C15: when the task of a worker that could not connect ends, the         *)
(* session's state machine is in Failed and its persisted status is        *)
(* Failed.                                                                 *)
C15_ConnectFailureFatal ==
    [][\A w \in DOMAIN workers :
          ConnectFailureHandled(w) =>
              /\ sm'[workers[w].sm].tag = "Failed"
              /\ session_store'[workers[w].session_id].status.tag = "Failed"]_vars

(* Call c enters resume_transfer(s) in this step *)
ResumeCalled(c, s) ==
    /\ calls[c].pc \in {"idle", "ret"}
    /\ api_calls' = api_calls + 1
    /\ calls'[c].op = "resume" /\ calls'[c].sid = s

Dequeues(w) ==
    /\ w \in DOMAIN workers /\ workers[w].chunk = <<>>
    /\ w \in DOMAIN workers' /\ workers'[w].chunk # <<>>

(* C17: a worker never takes up for transmission a shard whose sequence    *)
(* number its session already records as completed.                        *)
C17_CompletedNeverSentAgain ==
    [][\A w \in WorkerIds :
          Dequeues(w) =>
              workers'[w].chunk[1].sequence_number \notin
                  session_store[workers[w].session_id].completed_chunks]_vars

(* Call c enters cancel_transfer(s) in this step *)
CancelCalled(c, s) ==
    /\ calls[c].pc \in {"idle", "ret"}
    /\ api_calls' = api_calls + 1
    /\ calls'[c].op = "cancel" /\ calls'[c].sid = s

(* Call c, a repeated cancel_transfer(s), returns in this step *)
RepeatedCancelReturns(c, s) ==
    /\ calls[c].op = "cancel" /\ calls[c].sid = s /\ calls[c].again
    /\ calls[c].pc = "save" /\ calls'[c].pc = "ret"

(* C18: a cancel_transfer that follows a successful cancel_transfer of the *)
(* same session is let through, returns Ok, and changes neither a state    *)
(* machine nor the active map: the session stays out of the active map and *)
(* the status it persists is again Failed("Cancelled by user").            *)
C18_CancelIdempotent ==
    [][\A c \in Callers : \A s \in SessionIds :
          /\ (CancelCalled(c, s) /\ CancelledOk(c, s)) =>
                 /\ calls'[c].pc = "load"
                 /\ s \notin DOMAIN active_transfers
                 /\ UNCHANGED <<sm, active_transfers>>
          /\ RepeatedCancelReturns(c, s) =>
                 /\ calls'[c].result = "Ok"
                 /\ s \notin DOMAIN active_transfers'
                 /\ UNCHANGED <<sm, active_transfers>>
                 /\ session_store'[s].status = Failed(CancelledByUser)]_vars

(* A cancel_transfer repeated straight after a successful one has returned *)
C18_CancelledTwice ==
    \E c \in Callers :
        /\ calls[c].op = "cancel" /\ calls[c].pc = "ret" /\ calls[c].again
        /\ calls[c].result = "Ok"

----------------------------------------------------------------------------
(* coordinator/state_machine.rs on its own: tasks that hold clones of      *)
(* TransferStateMachine handles (a clone shares the state) and call        *)
(* transition with any event, in any order.                                *)

MachineIds == 1..MaxClients

TransitionInit ==
    /\ fs = [f \in Files |-> 1]
    /\ session_store = EmptyMap
    /\ sm = [m \in MachineIds |-> Idle]
    /\ active_transfers = EmptyMap
    /\ recent_transfers = EmptyMap
    /\ file_to_session = EmptyMap
    /\ queues = EmptyQueues
    /\ stats = EmptyStats
    /\ workers = EmptyMap
    /\ calls = [c \in Callers |-> IdleCall]
    /\ crashes = 0
    /\ api_calls = 0
    /\ clients = NoClients

(* lines 43-117: task k calls transition(ev) on machine m.  The task keeps *)
(* the event, the state it found and the result it got.                    *)
CallTransition(k, m, ev) ==
    /\ LET r == transition(sm[m], ev)
       IN  /\ sm' = [sm EXCEPT ![m] = r.state]
           /\ clients' = [clients EXCEPT ![k] =
                  [IdleClient EXCEPT !.op = ev, !.sid = m,
                                     !.pc = IF r.ok THEN "ok" ELSE "err",
                                     !.loaded = <<sm[m]>>, !.saved = <<r.state>>]]
    /\ UNCHANGED <<fs, session_store, active_transfers, recent_transfers,
                   file_to_session, queues, stats, workers, calls, crashes, api_calls>>

TransitionNext ==
    \E k \in ClientIds, m \in MachineIds, ev \in Events : CallTransition(k, m, ev)

TransitionSpec == TransitionInit /\ [][TransitionNext]_vars

(* Task k gets the result of a transition(ev) call on machine m in this step *)
Fired(k, m, ev) ==
    /\ clients'[k] # clients[k]
    /\ clients'[k].op = ev /\ clients'[k].sid = m

(* C19: a machine in Completed or Failed stays in that state whatever      *)
(* event transition is called with.                                        *)
C19_TerminalStatesAbsorb ==
    [][\A m \in MachineIds : is_terminal(sm[m]) => sm'[m] = sm[m]]_vars

(* C20: transition(Cancel) on a machine in a non-terminal state, Completing *)
(* included, succeeds and leaves the machine in Failed("Cancelled by       *)
(* user").                                                                 *)
C20_CancelAlwaysFails ==
    [][\A k \in ClientIds : \A m \in MachineIds :
          (Fired(k, m, "Cancel") /\ ~is_terminal(sm[m])) =>
              /\ clients'[k].pc = "ok"
              /\ sm'[m] = TState("Failed", CancelledByUser)]_vars

(* C21: a transition call with an event other than Start on a machine in   *)
(* Idle leaves the machine in Idle.                                        *)
C21_IdleOnlyStart ==
    [][\A k \in ClientIds : \A m \in MachineIds : \A ev \in Events \ {"Start"} :
          (Fired(k, m, ev) /\ sm[m] = Idle) => sm'[m] = Idle]_vars

(* C22: a transition call with an event other than Cancel succeeds exactly *)
(* on the pairs of the transition table and moves the machine to the       *)
(* listed state; on every other pair it fails and the state stays.         *)
C22_TransitionTable ==
    [][\A k \in ClientIds : \A m \in MachineIds : \A ev \in Events \ {"Cancel"} :
          Fired(k, m, ev) =>
              LET from == sm[m].tag
                  target ==
                      CASE from = "Idle" /\ ev = "Start" -> <<Preparing>>
                        [] from = "Preparing" /\ ev = "ChunkCompleted" -> <<Transferring>>
                        [] from = "Transferring" /\ ev \in {"ChunkCompleted", "ChunkFailed"} ->
                               <<Transferring>>
                        [] from = "Transferring" /\ ev = "Pause" ->
                               <<TState("Paused", UserRequested)>>
                        [] from = "Paused" /\ ev = "Resume" -> <<Transferring>>
                        [] from = "Transferring" /\ ev = "NetworkFailure" ->
                               <<TState("Paused", NetworkFailureReason)>>
                        [] from = "Paused" /\ ev = "NetworkRecovered"
                                /\ sm[m].reason = NetworkFailureReason -> <<Transferring>>
                        [] from = "Transferring" /\ ev = "TransferComplete" -> <<Completing>>
                        [] from = "Completing" -> <<TCompleted>>
                        [] OTHER -> <<>>
              IN  IF target # <<>>
                  THEN clients'[k].pc = "ok" /\ sm'[m] = target[1]
                  ELSE clients'[k].pc = "err" /\ sm'[m] = sm[m]]_vars

(* One task has had NetworkRecovered accepted from a network-failure pause *)
(* and another has had it rejected from a pause the user asked for.        *)
C22_RecoveredAndRejected ==
    \E k1, k2 \in ClientIds :
        /\ clients[k1].op = "NetworkRecovered" /\ clients[k1].pc = "ok"
        /\ clients[k1].loaded = <<TState("Paused", NetworkFailureReason)>>
        /\ clients[k2].op = "NetworkRecovered" /\ clients[k2].pc = "err"
        /\ clients[k2].loaded = <<TState("Paused", UserRequested)>>

----------------------------------------------------------------------------
(* priority/queue.rs on its own: tasks on the multi-threaded runtime that  *)
(* share one PriorityQueue::new(QueueCapacity) and call enqueue, requeue,  *)
(* dequeue and clear.                                                      *)
(* A task moves from one lock acquisition to the next; what it does        *)
(* between two of them touches only its own locals.                        *)

MAX_RETRIES == 5

(* The shards the tasks pass in: one file, two sequence numbers, every     *)
(* priority.                                                               *)
QueueChunks == {Chunk("a", n, prio) : n \in 0..1, prio \in Priorities}

(* The retry counts passed to requeue: the first, the last allowed, and    *)
(* the first refused                                                       *)
RetryCounts == {0, MAX_RETRIES - 1, MAX_RETRIES}

(* A backoff that grows by 100 ms a retry *)
backoff_linear_ms(retry_count) == 100 * (retry_count + 1)

(* line 144: Duration::from_millis(100 * 2u64.pow(retry_count)), reached   *)
(* with retry_count < MAX_RETRIES only, far below the width of u64         *)
backoff_ms(retry_count) == 100 * 2^retry_count

IdleTask ==
    [op |-> "none", pc |-> "idle", chunk |-> <<>>, idx |-> 0, sum |-> 0,
     retry_count |-> 0, slept_ms |-> 0, pushes |-> 0, result |-> "", made |-> 0,
     could |-> {}]

QueueInit ==
    /\ fs = [f \in Files |-> 1]
    /\ session_store = EmptyMap
    /\ sm = EmptyMap
    /\ active_transfers = EmptyMap
    /\ recent_transfers = EmptyMap
    /\ file_to_session = EmptyMap
    /\ queues = EmptyQueues
    /\ stats = EmptyStats
    /\ workers = EmptyMap
    /\ calls = [c \in Callers |-> IdleCall]
    /\ crashes = 0
    /\ api_calls = 0
    /\ clients = [k \in ClientIds |-> IdleTask]

QueueRest == <<fs, session_store, sm, active_transfers, recent_transfers,
               file_to_session, workers, calls, crashes, api_calls>>

(* What a dequeue on heaps qs returns if it runs with no other task in     *)
(* between: <<chunk>> for a shard, <<>> for QueueEmpty                     *)
Answers(qs) ==
    IF total_pending(qs) = 0 THEN {<<>>} ELSE {<<chunk>> : chunk \in DequeueChoices(qs)}

(* History kept for the properties: every task in the middle of a dequeue  *)
(* notes what the call could return on the heaps as they are now.          *)
Observed(cl, qs) ==
    [j \in DOMAIN cl |->
        IF cl[j].op = "dequeue" /\ cl[j].pc = "scan"
        THEN [cl[j] EXCEPT !.could = @ \cup Answers(qs)]
        ELSE cl[j]]

CanCallQueue(k) == clients[k].pc \in {"idle", "ret"} /\ clients[k].made < MaxQueueCalls

StartCall(k, op) == [IdleTask EXCEPT !.op = op, !.made = clients[k].made + 1]

QueueReturn(k, result) == [clients[k] EXCEPT !.pc = "ret", !.result = result]

(* lines 162-164, 34: total_pending reads the length of one heap after the *)
(* other; after the third the sum is compared with max_capacity.           *)
CountHeap(k, task) ==
    LET sum == task.sum + BagCardinality(queues[task.idx])
    IN  IF task.idx < 2
        THEN [task EXCEPT !.pc = "count", !.idx = @ + 1, !.sum = sum]
        ELSE IF sum >= QueueCapacity
        THEN [task EXCEPT !.pc = "ret", !.idx = 0, !.sum = 0, !.result = "QueueFull"]
        ELSE [task EXCEPT !.pc = "push", !.idx = 0, !.sum = 0]

(* lines 31-34: enqueue(chunk), up to the read of the first heap's length *)
QEnqueueCall(k, chunk) ==
    /\ CanCallQueue(k)
    /\ clients' = [clients EXCEPT ![k] =
           CountHeap(k, [StartCall(k, "enqueue") EXCEPT !.chunk = <<chunk>>])]
    /\ UNCHANGED <<queues, stats>>
    /\ UNCHANGED QueueRest

(* lines 136-141: requeue(chunk, retry_count) refuses, or starts to sleep *)
QRequeueCall(k, chunk, retry_count) ==
    /\ CanCallQueue(k)
    /\ LET task == [StartCall(k, "requeue") EXCEPT !.chunk = <<chunk>>,
                                                   !.retry_count = retry_count]
       IN  clients' = [clients EXCEPT ![k] =
               IF retry_count >= MAX_RETRIES
               THEN [task EXCEPT !.pc = "ret", !.result = "MaxRetriesExceeded"]
               ELSE [task EXCEPT !.pc = "sleep"]]
    /\ UNCHANGED <<queues, stats>>
    /\ UNCHANGED QueueRest

(* lines 144-147: the sleep is over, enqueue(chunk) starts *)
QWake(k) ==
    /\ clients[k].pc = "sleep"
    /\ clients' = [clients EXCEPT ![k] =
           CountHeap(k, [clients[k] EXCEPT
                            !.slept_ms = backoff_ms(clients[k].retry_count)])]
    /\ UNCHANGED <<queues, stats>>
    /\ UNCHANGED QueueRest

(* lines 162-164: the read of the next heap's length *)
QCount(k) ==
    /\ clients[k].pc = "count"
    /\ clients' = [clients EXCEPT ![k] = CountHeap(k, clients[k])]
    /\ UNCHANGED <<queues, stats>>
    /\ UNCHANGED QueueRest

(* lines 40-43: push under the write lock of the heap *)
QPush(k) ==
    /\ clients[k].pc = "push"
    /\ queues' = enqueue(queues, clients[k].chunk[1])
    /\ clients' = Observed([clients EXCEPT ![k].pc = "stats", ![k].pushes = @ + 1],
                           enqueue(queues, clients[k].chunk[1]))
    /\ UNCHANGED stats
    /\ UNCHANGED QueueRest

(* lines 46-58: the counters, under the lock of the stats; Ok *)
QStats(k) ==
    /\ clients[k].pc = "stats"
    /\ stats' = stats_enqueued(stats, priority_to_index(clients[k].chunk[1].priority))
    /\ clients' = [clients EXCEPT ![k] = QueueReturn(k, "Ok")]
    /\ UNCHANGED queues
    /\ UNCHANGED QueueRest

(* lines 64-96: one round of the loop of dequeue, under the write lock of  *)
(* heap idx: pop and the counters, or on to the next heap; after the third *)
(* QueueEmpty.                                                             *)
ScanHeap(k, task) ==
    LET heap == queues[task.idx]
    IN  IF heap # EmptyBag
        THEN \E chunk \in HeapTop(heap) :
                LET popped == [queues EXCEPT ![task.idx] = @ (-) SetToBag({chunk})]
                IN  /\ queues' = popped
                    /\ stats' = stats_dequeued(stats, task.idx)
                    /\ clients' = Observed([clients EXCEPT ![k] =
                           [task EXCEPT !.pc = "ret", !.idx = 0, !.chunk = <<chunk>>,
                                        !.result = "Ok", !.could = {}]], popped)
        ELSE /\ UNCHANGED <<queues, stats>>
             /\ clients' = [clients EXCEPT ![k] =
                    IF task.idx < 2
                    THEN [task EXCEPT !.pc = "scan", !.idx = @ + 1,
                                      !.could = @ \cup Answers(queues)]
                    ELSE [task EXCEPT !.pc = "ret", !.idx = 0, !.result = "QueueEmpty",
                                      !.could = {}]]

QDequeueCall(k) ==
    /\ CanCallQueue(k)
    /\ ScanHeap(k, StartCall(k, "dequeue"))
    /\ UNCHANGED QueueRest

QScan(k) ==
    /\ clients[k].pc = "scan"
    /\ ScanHeap(k, clients[k])
    /\ UNCHANGED QueueRest

(* lines 172-175: clear empties one heap after the other *)
ClearHeap(k, task) ==
    /\ queues' = [queues EXCEPT ![task.idx] = EmptyBag]
    /\ clients' = Observed([clients EXCEPT ![k] =
           IF task.idx < 2 THEN [task EXCEPT !.pc = "clear", !.idx = @ + 1]
           ELSE [task EXCEPT !.pc = "clear_stats", !.idx = 0]],
           [queues EXCEPT ![task.idx] = EmptyBag])
    /\ UNCHANGED stats

QClearCall(k) ==
    /\ CanCallQueue(k)
    /\ ClearHeap(k, StartCall(k, "clear"))
    /\ UNCHANGED QueueRest

QClear(k) ==
    /\ clients[k].pc = "clear"
    /\ ClearHeap(k, clients[k])
    /\ UNCHANGED QueueRest

(* lines 177-180: the three counters back to zero *)
QClearStats(k) ==
    /\ clients[k].pc = "clear_stats"
    /\ stats' = EmptyStats
    /\ clients' = [clients EXCEPT ![k] = QueueReturn(k, "Ok")]
    /\ UNCHANGED queues
    /\ UNCHANGED QueueRest

QueueNext ==
    \E k \in ClientIds :
        \/ \E chunk \in QueueChunks : QEnqueueCall(k, chunk)
        \/ \E chunk \in QueueChunks, retry_count \in RetryCounts :
               QRequeueCall(k, chunk, retry_count)
        \/ QWake(k)
        \/ QCount(k)
        \/ QPush(k)
        \/ QStats(k)
        \/ QDequeueCall(k)
        \/ QScan(k)
        \/ QClearCall(k)
        \/ QClear(k)
        \/ QClearStats(k)

QueueSpec == QueueInit /\ [][QueueNext]_vars

----------------------------------------------------------------------------
(* Properties of the priority queue *)

(* Task k's dequeue call returns in this step *)
DequeueReturns(k) ==
    /\ clients'[k].pc = "ret" /\ clients'[k].op = "dequeue"
    /\ clients'[k] # clients[k]

(* C23: there is a moment between the call and the return of a dequeue at  *)
(* which what it returns is right for the shards then pending: a shard of  *)
(* the highest non-empty level and of the lowest sequence number in that   *)
(* level, or QueueEmpty with no shard pending.                             *)
C23_DequeueInPriorityOrder ==
    [][\A k \in ClientIds :
          DequeueReturns(k) =>
              clients'[k].chunk \in clients[k].could \cup Answers(queues)]_vars

(* C24: the heaps never hold more shards than the capacity of the queue *)
C24_WithinCapacity == total_pending(queues) <= QueueCapacity

(* Task k's requeue call returns in this step *)
RequeueReturns(k) ==
    /\ clients'[k].pc = "ret" /\ clients'[k].op = "requeue"
    /\ clients'[k] # clients[k]

(* The call refused the shard without a sleep or a push *)
RequeueRefused(task) ==
    /\ task.result = "MaxRetriesExceeded"
    /\ task.slept_ms = 0 /\ task.pushes = 0

(* The call slept 100 * 2^retry_count ms before it went on to enqueue *)
RequeueSlept(task) == task.slept_ms = 100 * 2^task.retry_count

(* C25 as stated: requeue with retry_count >= 5 returns MaxRetriesExceeded *)
(* and leaves the queue as it is; with retry_count < 5 it returns after a  *)
(* sleep of 100 * 2^retry_count ms and one push of the shard.              *)
C25_RequeueEnqueuesOnce ==
    [][\A k \in ClientIds :
          RequeueReturns(k) =>
              LET task == clients'[k]
              IN  IF task.retry_count >= 5
                  THEN RequeueRefused(task) /\ UNCHANGED <<queues, stats>>
                  ELSE RequeueSlept(task) /\ task.pushes = 1]_vars

(* C25, amended: requeue with retry_count >= 5 returns MaxRetriesExceeded  *)
(* and leaves the queue as it is; with retry_count < 5 it sleeps           *)
(* 100 * 2^retry_count ms and then calls enqueue once, which either pushes *)
(* the shard once and returns Ok, or finds the queue at capacity, returns  *)
(* QueueFull and pushes nothing.                                           *)
C25_RequeueCallsEnqueueOnce ==
    [][\A k \in ClientIds :
          RequeueReturns(k) =>
              LET task == clients'[k]
              IN  IF task.retry_count >= 5
                  THEN RequeueRefused(task) /\ UNCHANGED <<queues, stats>>
                  ELSE /\ RequeueSlept(task)
                       /\ \/ task.result = "Ok" /\ task.pushes = 1
                          \/ task.result = "QueueFull" /\ task.pushes = 0]_vars

(* One requeue with four retries behind it has put its shard on the queue  *)
(* and another, the queue being full, has returned QueueFull.              *)
C25_RequeuedAndRefusedFull ==
    \E k1, k2 \in ClientIds :
        /\ clients[k1].op = "requeue" /\ clients[k1].pc = "ret"
        /\ clients[k1].retry_count = 4 /\ clients[k1].result = "Ok"
        /\ clients[k2].op = "requeue" /\ clients[k2].pc = "ret"
        /\ clients[k2].retry_count < 5 /\ clients[k2].result = "QueueFull"

----------------------------------------------------------------------------
(* priority/types.rs: BandwidthAllocation::new, on u64 values far below    *)
(* the width of the type.  Each of the three redistribution steps works on *)
(* the values the one before it left.                                      *)

Redistribute(alloc, from, to1, to2) ==
    [alloc EXCEPT ![to1] = @ + alloc[from] \div 2,
                  ![to2] = @ + alloc[from] \div 2,
                  ![from] = 0]

BandwidthAllocation_new(total_bps, critical_pending, high_pending, normal_pending) ==
    LET a0 == [critical_bps |-> total_bps \div 2,
               high_bps |-> (total_bps * 3) \div 10,
               normal_bps |-> total_bps \div 5,
               total_bps |-> total_bps]
        a1 == IF critical_pending = 0
              THEN Redistribute(a0, "critical_bps", "high_bps", "normal_bps") ELSE a0
        a2 == IF high_pending = 0
              THEN Redistribute(a1, "high_bps", "critical_bps", "normal_bps") ELSE a1
        a3 == IF normal_pending = 0
              THEN Redistribute(a2, "normal_bps", "critical_bps", "high_bps") ELSE a2
    IN  a3

(* queue.rs lines 184-192: the counters of the stats go in as they are *)
allocate_bandwidth(st, total_bps) ==
    BandwidthAllocation_new(total_bps, st[0], st[1], st[2])

(* A queue that holds st[i] shards at level i, counters to match, and      *)
(* tasks that ask it for an allocation.                                    *)
IdleAllocator == [op |-> "none", pc |-> "idle", pending |-> EmptyStats, alloc |-> <<>>]

AllocInit ==
    /\ fs = [f \in Files |-> 1]
    /\ session_store = EmptyMap
    /\ sm = EmptyMap
    /\ active_transfers = EmptyMap
    /\ recent_transfers = EmptyMap
    /\ file_to_session = EmptyMap
    /\ stats \in [0..2 -> 0..MaxPending]
    /\ queues = [i \in 0..2 |->
                    SetToBag({ch \in QueueChunks : /\ priority_to_index(ch.priority) = i
                                                   /\ ch.sequence_number < stats[i]})]
    /\ workers = EmptyMap
    /\ calls = [c \in Callers |-> IdleCall]
    /\ crashes = 0
    /\ api_calls = 0
    /\ clients = [k \in ClientIds |-> IdleAllocator]

Allocate(k, total_bps) ==
    /\ clients' = [clients EXCEPT ![k] =
           [op |-> "allocate_bandwidth", pc |-> "ret", pending |-> stats,
            alloc |-> <<allocate_bandwidth(stats, total_bps)>>]]
    /\ UNCHANGED <<queues, stats>>
    /\ UNCHANGED QueueRest

AllocNext == \E k \in ClientIds, total_bps \in 0..MaxBps : Allocate(k, total_bps)

AllocSpec == AllocInit /\ [][AllocNext]_vars

Allocated(k) == clients[k].pc = "ret"

(* C26: the three shares of every allocation add up to total_bps *)
C26_SharesAddUp ==
    \A k \in ClientIds :
        Allocated(k) =>
            LET a == clients[k].alloc[1]
            IN  a.critical_bps + a.high_bps + a.normal_bps = a.total_bps

(* C27: in every allocation a level with no pending shard gets 0 bps, and  *)
(* with shards pending at all three levels the shares are 50%, 30% and 20% *)
(* of total_bps, rounded down.                                             *)
C27_EmptyLevelGetsNothing ==
    \A k \in ClientIds :
        Allocated(k) =>
            LET a == clients[k].alloc[1]
                pending == clients[k].pending
            IN  /\ pending[0] = 0 => a.critical_bps = 0
                /\ pending[1] = 0 => a.high_bps = 0
                /\ pending[2] = 0 => a.normal_bps = 0
                /\ (\A i \in 0..2 : pending[i] > 0) =>
                       /\ a.critical_bps = a.total_bps \div 2
                       /\ a.high_bps = (a.total_bps * 3) \div 10
                       /\ a.normal_bps = a.total_bps \div 5

----------------------------------------------------------------------------
(* network/quic_transport.rs: send_with_retry, called by tasks that hold a *)
(* connection.  Each send_chunk succeeds or fails.                         *)

(* coordinator.rs line 731: the max_retries the worker passes *)
WorkerRetries == 3

RetryArgs == 0..WorkerRetries

(* sends counts the send_chunk calls of the call; retransmissions is what  *)
(* the call has added to the transport's counter of that name.             *)
IdleSender ==
    [op |-> "none", pc |-> "idle", max_retries |-> 0, attempts |-> 0,
     backoff |-> 0, sends |-> 0, retransmissions |-> 0, result |-> ""]

RetryInit ==
    /\ fs = [f \in Files |-> 1]
    /\ session_store = EmptyMap
    /\ sm = EmptyMap
    /\ active_transfers = EmptyMap
    /\ recent_transfers = EmptyMap
    /\ file_to_session = EmptyMap
    /\ queues = EmptyQueues
    /\ stats = EmptyStats
    /\ workers = EmptyMap
    /\ calls = [c \in Callers |-> IdleCall]
    /\ crashes = 0
    /\ api_calls = 0
    /\ clients = [k \in ClientIds |-> IdleSender]

(* lines 296-297: attempts = 0, backoff = 100 ms *)
SendWithRetryCall(k, max_retries) ==
    /\ clients[k].pc \in {"idle", "ret"}
    /\ clients' = [clients EXCEPT ![k] =
           [IdleSender EXCEPT !.op = "send_with_retry", !.pc = "send",
                              !.max_retries = max_retries, !.backoff = 100]]
    /\ UNCHANGED <<queues, stats>>
    /\ UNCHANGED QueueRest

(* lines 300-323: one send_chunk and the match on its result *)
SendChunk(k, sent) ==
    /\ clients[k].pc = "send"
    /\ LET task == [clients[k] EXCEPT !.sends = @ + 1]
       IN  clients' = [clients EXCEPT ![k] =
               IF sent THEN [task EXCEPT !.pc = "ret", !.result = "Ok"]
               ELSE IF task.attempts < task.max_retries
               THEN [task EXCEPT !.pc = "sleep", !.retransmissions = @ + 1]
               ELSE [task EXCEPT !.pc = "ret", !.result = "MaxRetriesExceeded"]]
    /\ UNCHANGED <<queues, stats>>
    /\ UNCHANGED QueueRest

(* lines 316-318: the sleep is over; backoff *= 2; attempts += 1 *)
SendWake(k) ==
    /\ clients[k].pc = "sleep"
    /\ clients' = [clients EXCEPT ![k].pc = "send", ![k].backoff = @ * 2,
                                  ![k].attempts = @ + 1]
    /\ UNCHANGED <<queues, stats>>
    /\ UNCHANGED QueueRest

RetryNext ==
    \E k \in ClientIds :
        \/ \E max_retries \in RetryArgs : SendWithRetryCall(k, max_retries)
        \/ \E sent \in BOOLEAN : SendChunk(k, sent)
        \/ SendWake(k)

RetrySpec == RetryInit /\ [][RetryNext]_vars

(* C28: a send_with_retry call given a number of at least one never makes  *)
(* more send attempts than that number, whether it ends in success or in   *)
(* MaxRetriesExceeded.                                                     *)
C28_AtMostMaxAttempts ==
    \A k \in ClientIds :
        clients[k].max_retries >= 1 => clients[k].sends <= clients[k].max_retries

----------------------------------------------------------------------------
(* chunk/adaptive.rs: AdaptiveErasureConfig::parity_for_loss_rate.  A loss *)
(* rate is held in percent, so the thresholds 0.05 .. 1.00 are 5 .. 100.   *)

DefaultThresholds == <<<<5, 5>>, <<10, 10>>, <<15, 15>>, <<20, 20>>, <<100, 25>>>>

(* The loss rates tried: every multiple of 5% and the rate 1% above it *)
LossRates == {r \in 0..100 : r % 5 \in {0, 1}}

(* AdaptiveErasureConfig::new(data_shards, min_parity, max_parity) with    *)
(* min_parity <= max_parity: the thresholds are the default ones.          *)
ParityArgs == {5 * i : i \in 0..MaxParitySteps}

AdaptiveConfigs ==
    {[min_parity_shards |-> p[1], max_parity_shards |-> p[2],
      thresholds |-> DefaultThresholds] :
        p \in {q \in ParityArgs \X ParityArgs : q[1] <= q[2]}}

(* usize::clamp, for min <= max *)
clamp(x, lo, hi) == IF x < lo THEN lo ELSE IF x > hi THEN hi ELSE x

(* A variant that hands back the parity of the threshold as it is *)
parity_unclamped(config, loss_rate) ==
    LET hits == {i \in 1..Len(config.thresholds) : loss_rate <= config.thresholds[i][1]}
    IN  IF hits = {} THEN config.max_parity_shards
        ELSE config.thresholds[CHOOSE i \in hits : \A j \in hits : i <= j][2]

(* lines 52-59: the first threshold the rate does not exceed, clamped *)
parity_for_loss_rate(config, loss_rate) ==
    LET hits == {i \in 1..Len(config.thresholds) : loss_rate <= config.thresholds[i][1]}
    IN  IF hits = {} THEN config.max_parity_shards
        ELSE clamp(config.thresholds[CHOOSE i \in hits : \A j \in hits : i <= j][2],
                   config.min_parity_shards, config.max_parity_shards)

IdleAdvisor(config) ==
    [op |-> "none", pc |-> "idle", config |-> config, loss_rate |-> 0, parity |-> 0]

ParityInit ==
    /\ fs = [f \in Files |-> 1]
    /\ session_store = EmptyMap
    /\ sm = EmptyMap
    /\ active_transfers = EmptyMap
    /\ recent_transfers = EmptyMap
    /\ file_to_session = EmptyMap
    /\ queues = EmptyQueues
    /\ stats = EmptyStats
    /\ workers = EmptyMap
    /\ calls = [c \in Callers |-> IdleCall]
    /\ crashes = 0
    /\ api_calls = 0
    /\ \E config \in AdaptiveConfigs : clients = [k \in ClientIds |-> IdleAdvisor(config)]

ParityForLossRate(k, loss_rate) ==
    /\ clients' = [clients EXCEPT ![k] =
           [@ EXCEPT !.op = "parity_for_loss_rate", !.pc = "ret", !.loss_rate = loss_rate,
                     !.parity = parity_for_loss_rate(clients[k].config, loss_rate)]]
    /\ UNCHANGED <<queues, stats>>
    /\ UNCHANGED QueueRest

ParityNext == \E k \in ClientIds, loss_rate \in LossRates : ParityForLossRate(k, loss_rate)

ParitySpec == ParityInit /\ [][ParityNext]_vars

(* C29: of two recommendations of one configuration the one for the higher *)
(* loss rate is not the smaller, and every recommendation lies between     *)
(* min_parity and max_parity.                                              *)
C29_ParityMonotoneAndClamped ==
    \A k1, k2 \in ClientIds :
        (clients[k1].pc = "ret" /\ clients[k2].pc = "ret") =>
            /\ clients[k1].loss_rate <= clients[k2].loss_rate =>
                   clients[k1].parity <= clients[k2].parity
            /\ clients[k1].parity >= clients[k1].config.min_parity_shards
            /\ clients[k1].parity <= clients[k1].config.max_parity_shards

(* Two recommendations of the default configuration, the one for the       *)
(* higher loss rate being the larger.                                      *)
C29_HigherRateMoreParity ==
    \E k1, k2 \in ClientIds :
        /\ clients[k1].pc = "ret" /\ clients[k2].pc = "ret"
        /\ clients[k1].config.min_parity_shards = 5
        /\ clients[k1].config.max_parity_shards = 25
        /\ clients[k1].loss_rate < clients[k2].loss_rate
        /\ clients[k1].parity < clients[k2].parity

----------------------------------------------------------------------------
(* chunk/manager.rs and chunk/erasure.rs: split_file and reconstruct_file  *)
(* on the bytes of a file.  The one receiver is the record clients.        *)
(* Reed-Solomon works over the integers modulo the prime FieldOrder        *)
(* instead of GF(2^8): parity shard j of a codeword is, byte by byte, the  *)
(* sum over the data shards i of j^i times the byte of shard i.  For up to *)
(* three data and three parity shards every square submatrix of these      *)
(* coefficients is invertible, as the library's matrix is.                 *)

FieldOrder == 7
FieldElements == 0..(FieldOrder - 1)
ByteValues == 0..MaxByte

FileContents == UNION {[1..n -> ByteValues] : n \in 0..MaxFileLen}

(* blake3 is taken to be free of collisions; it is never all zeros *)
blake3(data) == <<"blake3", data>>
zero_checksum == <<"zero">>

Min2(a, b) == IF a <= b THEN a ELSE b

RECURSIVE Flatten(_)
Flatten(seqs) == IF seqs = <<>> THEN <<>> ELSE Head(seqs) \o Flatten(Tail(seqs))

RECURSIVE MaxLenOf(_)
MaxLenOf(seqs) == IF seqs = <<>> THEN 0 ELSE Max2(Len(Head(seqs)), MaxLenOf(Tail(seqs)))

(* erasure.rs 12-22 *)
ErasureCoder_new(data_shards, parity_shards) ==
    [ok |-> ~(data_shards = 0 \/ parity_shards = 0),
     data_shards |-> data_shards, parity_shards |-> parity_shards]

(* erasure.rs 82-105 *)
prepare_shards(coder, data_chunks, shard_size) ==
    [i \in 1..(Max2(Len(data_chunks), coder.data_shards) + coder.parity_shards) |->
        [b \in 1..shard_size |->
            IF i <= Len(data_chunks) /\ b <= Len(data_chunks[i])
            THEN data_chunks[i][b] ELSE 0]]

RECURSIVE ParityByte(_, _, _, _)
ParityByte(j, data, b, i) ==
    IF i > Len(data) THEN 0
    ELSE (j^(i - 1) * data[i][b] + ParityByte(j, data, b, i + 1)) % FieldOrder

(* A variant whose parity shards are all the plain sum of the data shards *)
CodewordOfSums(coder, data, shard_size) ==
    [i \in 1..(coder.data_shards + coder.parity_shards) |->
        IF i <= coder.data_shards THEN data[i]
        ELSE [b \in 1..shard_size |-> ParityByte(1, data, b, 1)]]

(* The codeword of the data shards: the data followed by the parity *)
Codeword(coder, data, shard_size) ==
    [i \in 1..(coder.data_shards + coder.parity_shards) |->
        IF i <= coder.data_shards THEN data[i]
        ELSE [b \in 1..shard_size |-> ParityByte(i - coder.data_shards, data, b, 1)]]

(* ReedSolomon::encode: refuses a wrong number of shards *)
rs_encode(coder, shards, shard_size) ==
    IF Len(shards) # coder.data_shards + coder.parity_shards
    THEN [ok |-> FALSE, shards |-> <<>>]
    ELSE [ok |-> TRUE,
          shards |-> Codeword(coder, SubSeq(shards, 1, coder.data_shards), shard_size)]

(* erasure.rs 25-43 *)
encode(coder, data_chunks) ==
    IF data_chunks = <<>> THEN [ok |-> TRUE, shards |-> <<>>]
    ELSE LET shard_size == MaxLenOf(data_chunks)
         IN  rs_encode(coder, prepare_shards(coder, data_chunks, shard_size), shard_size)

Some(x) == [some |-> TRUE, data |-> x]
NoShard == [some |-> FALSE]

Present(shards) == {i \in 1..Len(shards) : shards[i].some}

(* ReedSolomon::reconstruct: the shards that are present stay as they are, *)
(* the missing ones are computed from the first data_shards present ones.  *)
rs_reconstruct(coder, shards) ==
    LET present == Present(shards)
        used == {i \in present : Cardinality({j \in present : j < i}) < coder.data_shards}
        shard_size == Len(shards[CHOOSE i \in present : TRUE].data)
        fits(column, b) ==
            LET data == [i \in 1..coder.data_shards |-> <<column[i]>>]
            IN  \A i \in used : Codeword(coder, data, 1)[i][1] = shards[i].data[b]
        columns == [b \in 1..shard_size |->
                       CHOOSE column \in [1..coder.data_shards -> FieldElements] :
                           fits(column, b)]
        data == [i \in 1..coder.data_shards |-> [b \in 1..shard_size |-> columns[b][i]]]
    IN  IF \/ Len(shards) # coder.data_shards + coder.parity_shards
           \/ Cardinality(present) < coder.data_shards
           \/ \E i \in present : Len(shards[i].data) # shard_size
        THEN [ok |-> FALSE, shards |-> <<>>]
        ELSE [ok |-> TRUE,
              shards |-> [i \in 1..Len(shards) |->
                  IF shards[i].some THEN shards[i]
                  ELSE Some(Codeword(coder, data, shard_size)[i])]]

Done == [tag |-> "Ok"]

InsufficientChunks(needed, available) ==
    [tag |-> "InsufficientChunks", needed |-> needed, available |-> available]

(* erasure.rs 46-79 *)
decode(coder, chunks) ==
    LET present_count == Cardinality(Present(chunks))
        rebuilt == rs_reconstruct(coder, chunks)
    IN  IF chunks = <<>> THEN [result |-> Done, shards |-> <<>>]
        ELSE IF present_count < coder.data_shards
        THEN [result |-> InsufficientChunks(coder.data_shards, present_count), shards |-> <<>>]
        ELSE IF ~rebuilt.ok THEN [result |-> [tag |-> "ErasureCoding"], shards |-> <<>>]
        ELSE [result |-> Done,
              shards |-> [i \in 1..coder.data_shards |-> rebuilt.shards[i].data]]

(* manager.rs 53-62 *)
raw_chunks(file_data) ==
    [i \in 1..CeilDiv(Len(file_data), ShardChunkSize) |->
        SubSeq(file_data, (i - 1) * ShardChunkSize + 1,
               Min2(i * ShardChunkSize, Len(file_data)))]

(* manager.rs 36-139 *)
split_file_data(file_data) ==
    LET data_chunks_vec == raw_chunks(file_data)
        actual_data_chunks == Len(data_chunks_vec)
        use_adaptive == actual_data_chunks < ShardData \div 2
        adaptive_data == Max2(actual_data_chunks, 1)
        adaptive_parity == Max2(CeilDiv(adaptive_data * ShardParity, ShardData), 1)
        coder == IF use_adaptive THEN ErasureCoder_new(adaptive_data, adaptive_parity)
                 ELSE ErasureCoder_new(ShardData, ShardParity)
        encoded == encode(coder, data_chunks_vec)
        total_chunks == Len(encoded.shards)
    IN  [ok |-> encoded.ok,
         manifest |-> [total_size |-> Len(file_data), total_chunks |-> total_chunks,
                       data_chunks |-> coder.data_shards,
                       parity_chunks |-> coder.parity_shards,
                       checksum |-> blake3(file_data)],
         chunks |-> [i \in 1..total_chunks |->
                       [sequence_number |-> i - 1, data |-> encoded.shards[i],
                        checksum |-> blake3(encoded.shards[i]),
                        is_parity |-> i - 1 >= coder.data_shards]]]

(* manager.rs 145-221.  The chunks arrive sorted by sequence number, which *)
(* is what line 167 makes of them.  output is the content of the file at   *)
(* output_path, None while it is not created.                              *)
reconstruct_file(manifest, chunks) ==
    LET data_shards == manifest.data_chunks
        coder == ErasureCoder_new(data_shards, manifest.parity_chunks)
        valid(seq) == {i \in 1..Len(chunks) :
                          /\ chunks[i].sequence_number = seq
                          /\ blake3(chunks[i].data) = chunks[i].checksum}
        chunk_map == [i \in 1..manifest.total_chunks |->
                         IF valid(i - 1) = {} THEN NoShard
                         ELSE Some(chunks[CHOOSE n \in valid(i - 1) :
                                              \A m \in valid(i - 1) : m <= n].data)]
        decoded == decode(coder, chunk_map)
        all == Flatten(decoded.shards)
        written == SubSeq(all, 1, Min2(Len(all), manifest.total_size))
    IN  IF ~coder.ok THEN [result |-> [tag |-> "InvalidChunkSize"], output |-> None]
        ELSE IF Len(chunks) < data_shards
        THEN [result |-> InsufficientChunks(data_shards, Len(chunks)), output |-> None]
        ELSE IF decoded.result # Done THEN [result |-> decoded.result, output |-> None]
        ELSE IF manifest.checksum # zero_checksum /\ blake3(written) # manifest.checksum
        THEN [result |-> [tag |-> "ChecksumMismatch"], output |-> written]
        ELSE [result |-> Done, output |-> written]

(* A shard damaged on the way: its bytes no longer match its checksum *)
garble(chunk) == [chunk EXCEPT !.data[1] = (@ + 1) % FieldOrder]

RECURSIVE Copies(_, _)
Copies(x, n) == IF n = 0 THEN <<>> ELSE <<x>> \o Copies(x, n - 1)

(* What a receiver holds of a file: of every shard up to MaxCopies intact  *)
(* copies and at most one damaged one.                                     *)
Holdings(chunks) == [1..Len(chunks) -> [intact : 0..MaxCopies, garbled : 0..1]]

RECURSIVE Supplied(_, _, _)
Supplied(chunks, held, i) ==
    IF i > Len(chunks) THEN <<>>
    ELSE Copies(chunks[i], held[i].intact) \o Copies(garble(chunks[i]), held[i].garbled)
         \o Supplied(chunks, held, i + 1)

IdleReceiver ==
    [pc |-> "idle", file_data |-> <<>>, manifest |-> None, chunks |-> <<>>,
     supplied |-> <<>>, result |-> None, output |-> None]

ReconstructInit ==
    /\ fs = [f \in Files |-> 1]
    /\ session_store = EmptyMap
    /\ sm = EmptyMap
    /\ active_transfers = EmptyMap
    /\ recent_transfers = EmptyMap
    /\ file_to_session = EmptyMap
    /\ queues = EmptyQueues
    /\ stats = EmptyStats
    /\ workers = EmptyMap
    /\ calls = [c \in Callers |-> IdleCall]
    /\ crashes = 0
    /\ api_calls = 0
    /\ clients = IdleReceiver

SplitFile(file_data) ==
    /\ clients.pc = "idle"
    /\ LET split == split_file_data(file_data)
       IN  /\ split.ok
           /\ clients' = [clients EXCEPT !.pc = "split", !.file_data = file_data,
                                         !.manifest = split.manifest,
                                         !.chunks = split.chunks]
    /\ UNCHANGED <<queues, stats>>
    /\ UNCHANGED QueueRest

ReconstructFile(held) ==
    /\ clients.pc = "split"
    /\ LET chunks == Supplied(clients.chunks, held, 1)
           done == reconstruct_file(clients.manifest, chunks)
       IN  clients' = [clients EXCEPT !.pc = "done", !.supplied = chunks,
                                      !.result = done.result, !.output = done.output]
    /\ UNCHANGED <<queues, stats>>
    /\ UNCHANGED QueueRest

ReconstructNext ==
    \/ \E file_data \in FileContents : SplitFile(file_data)
    \/ \E held \in Holdings(clients.chunks) : ReconstructFile(held)

ReconstructSpec == ReconstructInit /\ [][ReconstructNext]_vars

(* The shards of the file that were supplied with a valid checksum *)
ValidShards ==
    {clients.supplied[i].sequence_number : i \in
        {n \in 1..Len(clients.supplied) :
            blake3(clients.supplied[n].data) = clients.supplied[n].checksum}}

(* C30: reconstruct_file given at least D distinct shards with valid       *)
(* checksums succeeds and writes exactly the bytes of the file; given only *)
(* n < D of them it fails with InsufficientChunks{needed: D, available: n}.*)
C30_ReconstructFromAnyDShards ==
    clients.pc = "done" =>
        LET n == Cardinality(ValidShards)
        IN  IF n >= clients.manifest.data_chunks
            THEN clients.result = Done /\ clients.output = clients.file_data
            ELSE clients.result = InsufficientChunks(clients.manifest.data_chunks, n)

(* C30, as the code has it: the count reported with InsufficientChunks is *)
(* the number of chunks handed in, damaged and repeated ones included,     *)
(* when that number is below D, and the number of distinct valid shards    *)
(* otherwise.                                                              *)
C30_ReconstructCountsChunksFirst ==
    clients.pc = "done" =>
        LET n == Cardinality(ValidShards)
            D == clients.manifest.data_chunks
            available == IF Len(clients.supplied) < D THEN Len(clients.supplied) ELSE n
        IN  IF n >= D
            THEN clients.result = Done /\ clients.output = clients.file_data
            ELSE clients.result = InsufficientChunks(D, available)

(* A file of three bytes rebuilt from its two parity shards alone, a       *)
(* damaged copy of a data shard having been handed in with them.           *)
C30_RebuiltFromParityOnly ==
    /\ clients.pc = "done"
    /\ Len(clients.file_data) = 3
    /\ ValidShards = {2, 3}
    /\ Len(clients.supplied) = 3
    /\ clients.result = Done
    /\ clients.output = clients.file_data

(* C31: the manifest of every successful split has total_chunks =         *)
(* data_chunks + parity_chunks and file_size <= data_chunks * chunk_size,  *)
(* and the shards returned with it are total_chunks many, numbered         *)
(* 0 .. total_chunks - 1.                                                  *)
C31_ManifestConsistent ==
    clients.pc \in {"split", "done"} =>
        LET manifest == clients.manifest
        IN  /\ manifest.total_chunks = manifest.data_chunks + manifest.parity_chunks
            /\ manifest.total_size <= manifest.data_chunks * ShardChunkSize
            /\ Len(clients.chunks) = manifest.total_chunks
            /\ \A i \in 1..Len(clients.chunks) : clients.chunks[i].sequence_number = i - 1

(* C32: a worker sends, and records completed or failed in its session,   *)
(* only shards of its own session's file: the shard a worker holds between *)
(* its dequeue and its mark is never one of another session's file.        *)
C32_WorkerHandlesOwnShards ==
    \A w \in DOMAIN workers :
        workers[w].chunk # <<>> =>
            workers[w].chunk[1].file_id = session_store[workers[w].session_id].file_id

----------------------------------------------------------------------------
(* coordinator.rs: send_file calls with and without a receiver address and *)
(* the workers they spawn, every send of a shard succeeding or failing for *)
(* good; each worker task keeps being scheduled.                           *)

NetWorkerStep(w) ==
    \/ WorkerStart(w)
    \/ \E connected \in BOOLEAN : WorkerConnect(w, connected)
    \/ WorkerLoopTop(w)
    \/ \E sent \in BOOLEAN : WorkerSend(w, sent)
    \/ WorkerLoad(w)
    \/ WorkerMarkFailed(w)
    \/ WorkerMarkCompleted(w)
    \/ WorkerFinish(w)
    \/ WorkerErrSave(w)

NetNext ==
    \/ \E c \in Callers :
          \/ \E f \in Files, prio \in SendPriorities, recv \in BOOLEAN :
                 SendFileCheck(c, f, prio, recv)
          \/ SendFilePersist(c)
          \/ SendFileRegister(c)
    \/ \E w \in WorkerIds : NetWorkerStep(w)

NetSpec ==
    /\ SendInit /\ [][NetNext]_vars
    /\ \A w \in WorkerIds : WF_vars(NetWorkerStep(w))

(* Shards of file f are waiting in the queue *)
PendingOf(f) == \E i \in DOMAIN queues : \E chunk \in DOMAIN queues[i] : chunk.file_id = f

(* C33: a transfer_worker with none of its session's shards pending in the *)
(* queue eventually returns, however the sends of the shards end.          *)
C33_WorkerReturns ==
    \A w \in WorkerIds :
        (w \in DOMAIN workers /\ ~PendingOf(workers[w].file_id))
            ~> (w \in DOMAIN workers /\ workers[w].pc = "done")

----------------------------------------------------------------------------
(* coordinator.rs: several tasks calling send_file on one coordinator at   *)
(* the same time (the HTTP handlers share it), and the local-loop workers  *)
(* they spawn.                                                             *)

OverlapCallers == 1..MaxOverlap

OverlapInit ==
    /\ fs \in [Files -> 0..MaxFileChunks]
    /\ session_store = EmptyMap
    /\ sm = EmptyMap
    /\ active_transfers = EmptyMap
    /\ recent_transfers = EmptyMap
    /\ file_to_session = EmptyMap
    /\ queues = EmptyQueues
    /\ stats = EmptyStats
    /\ workers = EmptyMap
    /\ calls = [c \in OverlapCallers |-> IdleCall]
    /\ crashes = 0
    /\ api_calls = 0
    /\ clients = NoClients

OverlapNext ==
    \/ \E c \in OverlapCallers :
          \/ \E f \in Files, prio \in SendPriorities : SendFileCheck(c, f, prio, FALSE)
          \/ SendFilePersist(c)
          \/ SendFileRegister(c)
    \/ \E w \in WorkerIds : LocalWorkerStep(w)

OverlapSpec == OverlapInit /\ [][OverlapNext]_vars

(* The sessions in the active map that transfer file f *)
ActiveSessionsOf(f) == {s \in DOMAIN active_transfers : session_store[s].file_id = f}

(* C34: of send_file calls on one path that overlap at most one is         *)
(* accepted: no file has two sessions in the active map, nor two workers   *)
(* running, at the same time.                                              *)
C34_OneSessionPerFile ==
    \A f \in Files :
        /\ Cardinality(ActiveSessionsOf(f)) <= 1
        /\ Cardinality({w \in DOMAIN workers : workers[w].file_id = f /\ Running(w)}) <= 1

(* C35: once a session is out of the active map and its worker task has   *)
(* ended, the file mapping no longer holds the session's file, so that the *)
(* file can be sent again.                                                 *)
C35_FileFreedAfterExit ==
    \A s \in DOMAIN session_store :
        (s \notin DOMAIN active_transfers /\ WorkersOf(s) # {} /\ LiveWorkersOf(s) = {}) =>
            \A f \in DOMAIN file_to_session : file_to_session[f] # s

(* The state machine the coordinator holds for session s: the one in the  *)
(* active map, or else the one kept in recent_transfers.                   *)
HasMachine(s) == s \in DOMAIN active_transfers \/ s \in DOMAIN recent_transfers
MachineOf(s) ==
    sm[IF s \in DOMAIN active_transfers THEN active_transfers[s] ELSE recent_transfers[s]]

CallInProgress(s) == \E c \in DOMAIN calls : calls[c].pc \notin {"idle", "ret"} /\ calls[c].sid = s

StateAgreesWithStatus(st, status) ==
    \/ st.tag = "Paused" /\ status.tag = "Paused"
    \/ st.tag = "Completed" /\ status.tag = "Completed"
    \/ st.tag = "Failed" /\ status.tag = "Failed"
    \/ st.tag \in {"Preparing", "Transferring"} /\ status.tag = "Active"

(* C36: while no worker runs and no control call is in progress for a      *)
(* session, its state machine and its persisted status agree.              *)
C36_MachineAgreesWithStore ==
    \A s \in DOMAIN session_store :
        (HasMachine(s) /\ LiveWorkersOf(s) = {} /\ WorkersOf(s) # {} /\ ~CallInProgress(s)) =>
            StateAgreesWithStatus(MachineOf(s), session_store[s].status)

(* C37: the priority queue never holds two entries for one file and       *)
(* sequence number.                                                        *)
C37_NoDuplicateQueueEntries ==
    \A i \in DOMAIN queues : \A chunk \in DOMAIN queues[i] : queues[i][chunk] <= 1

(* C38: whenever no queue operation is in progress the pending counter of *)
(* every level in the statistics equals the number of shards in its heap.  *)
C38_StatsMatchHeaps ==
    (\A k \in ClientIds : clients[k].pc \in {"idle", "ret"}) =>
        \A idx \in DOMAIN queues : stats[idx] = BagCardinality(queues[idx])

----------------------------------------------------------------------------
(* chunk/adaptive.rs: AdaptiveErasureCoder, shared by the tasks that       *)
(* report deliveries.  clients is [coder, tasks].  The observed loss rate  *)
(* is kept in whole percent, rounded down.                                 *)

MinSamples == 10
WindowSamples == 100

DefaultConfig ==
    [min_parity_shards |-> 5, max_parity_shards |-> 25, thresholds |-> DefaultThresholds]

(* lines 87-96 *)
AdaptiveErasureCoder_new(config) ==
    [config |-> config, current_parity |-> config.min_parity_shards,
     observed_loss_rate |-> 0, sample_count |-> 0, lost_count |-> 0, rate_lock |-> None]

(* lines 118-127: the moving average and the parity it recommends *)
Smoothed(coder, samples, lost) ==
    LET current_rate == (lost * 100) \div samples
        rate == (coder.observed_loss_rate * 7 + current_rate * 3) \div 10
    IN  [coder EXCEPT !.observed_loss_rate = rate,
                      !.current_parity = parity_for_loss_rate(coder.config, rate)]

(* record_success (loss = FALSE) or record_loss (loss = TRUE), lines       *)
(* 99-135, run by one task with no other task in between                   *)
record(coder, loss) ==
    LET samples == coder.sample_count + 1
        lost == coder.lost_count + (IF loss THEN 1 ELSE 0)
        counted == [coder EXCEPT !.sample_count = samples, !.lost_count = lost]
    IN  IF samples < MinSamples THEN counted
        ELSE IF samples < WindowSamples THEN Smoothed(counted, samples, lost)
        ELSE [Smoothed(counted, samples, lost) EXCEPT !.sample_count = 0, !.lost_count = 0]

(* The coder after n reports in a row, all losses or all successes *)
RECURSIVE AfterRecords(_, _, _)
AfterRecords(coder, n, loss) ==
    LET next == record(coder, loss)
    IN  IF n = 0 \/ next.sample_count > WindowSamples THEN coder
        ELSE AfterRecords(next, n - 1, loss)

StartSamples == {0, MinSamples - 1} \cup {WindowSamples - j : j \in 1..MaxWindowBack}

IdleReporter == [op |-> "none", pc |-> "idle", samples |-> 0, lost |-> 0, made |-> 0]

AdaptiveInit ==
    /\ fs = [f \in Files |-> 1]
    /\ session_store = EmptyMap
    /\ sm = EmptyMap
    /\ active_transfers = EmptyMap
    /\ recent_transfers = EmptyMap
    /\ file_to_session = EmptyMap
    /\ queues = EmptyQueues
    /\ stats = EmptyStats
    /\ workers = EmptyMap
    /\ calls = [c \in Callers |-> IdleCall]
    /\ crashes = 0
    /\ api_calls = 0
    /\ \E n \in StartSamples, loss \in BOOLEAN :
          clients = [coder |-> AfterRecords(AdaptiveErasureCoder_new(DefaultConfig), n, loss),
                     tasks |-> [k \in ClientIds |-> IdleReporter]]

CanRecord(k) ==
    clients.tasks[k].pc \in {"idle", "ret"} /\ clients.tasks[k].made < MaxRecordCalls

AdaptiveStep(coder, k, task) ==
    /\ clients' = [coder |-> coder, tasks |-> [clients.tasks EXCEPT ![k] = task]]
    /\ UNCHANGED <<queues, stats>>
    /\ UNCHANGED QueueRest

(* line 100: sample_count.fetch_add(1) *)
RecordSuccess(k) ==
    /\ CanRecord(k)
    /\ AdaptiveStep([clients.coder EXCEPT !.sample_count = @ + 1], k,
                    [IdleReporter EXCEPT !.op = "record_success", !.pc = "load_samples",
                                         !.made = clients.tasks[k].made + 1])

(* line 106: sample_count.fetch_add(1) *)
RecordLoss(k) ==
    /\ CanRecord(k)
    /\ AdaptiveStep([clients.coder EXCEPT !.sample_count = @ + 1], k,
                    [IdleReporter EXCEPT !.op = "record_loss", !.pc = "add_lost",
                                         !.made = clients.tasks[k].made + 1])

(* line 107: lost_count.fetch_add(1) *)
AddLost(k) ==
    /\ clients.tasks[k].pc = "add_lost"
    /\ AdaptiveStep([clients.coder EXCEPT !.lost_count = @ + 1], k,
                    [clients.tasks[k] EXCEPT !.pc = "load_samples"])

(* line 113: sample_count.load *)
LoadSamples(k) ==
    /\ clients.tasks[k].pc = "load_samples"
    /\ AdaptiveStep(clients.coder, k,
                    [clients.tasks[k] EXCEPT !.pc = "load_lost",
                                             !.samples = clients.coder.sample_count])

(* lines 114-116: lost_count.load, and the test samples >= 10 *)
LoadLost(k) ==
    /\ clients.tasks[k].pc = "load_lost"
    /\ AdaptiveStep(clients.coder, k,
                    [clients.tasks[k] EXCEPT
                        !.lost = clients.coder.lost_count,
                        !.pc = IF clients.tasks[k].samples >= MinSamples
                               THEN "write_rate" ELSE "ret"])

(* lines 118-130: under the write lock of observed_loss_rate, the new rate *)
(* and parity; the lock is held on if the counters are to be reset         *)
WriteRate(k) ==
    /\ clients.tasks[k].pc = "write_rate"
    /\ clients.coder.rate_lock = None
    /\ LET task == clients.tasks[k]
           reset == task.samples >= WindowSamples
       IN  AdaptiveStep([Smoothed(clients.coder, task.samples, task.lost) EXCEPT
                            !.rate_lock = IF reset THEN k ELSE None], k,
                        [task EXCEPT !.pc = IF reset THEN "reset_samples" ELSE "ret"])

(* line 131: sample_count.store(0) *)
ResetSamples(k) ==
    /\ clients.tasks[k].pc = "reset_samples"
    /\ AdaptiveStep([clients.coder EXCEPT !.sample_count = 0], k,
                    [clients.tasks[k] EXCEPT !.pc = "reset_lost"])

(* lines 132-134: lost_count.store(0), and the lock is dropped *)
ResetLost(k) ==
    /\ clients.tasks[k].pc = "reset_lost"
    /\ AdaptiveStep([clients.coder EXCEPT !.lost_count = 0, !.rate_lock = None], k,
                    [clients.tasks[k] EXCEPT !.pc = "ret"])

AdaptiveNext ==
    \E k \in ClientIds :
        \/ RecordSuccess(k)
        \/ RecordLoss(k)
        \/ AddLost(k)
        \/ LoadSamples(k)
        \/ LoadLost(k)
        \/ WriteRate(k)
        \/ ResetSamples(k)
        \/ ResetLost(k)

AdaptiveSpec == AdaptiveInit /\ [][AdaptiveNext]_vars

(* C39: in every state of the controller lost_count <= sample_count <= 100 *)
C39_CountersWithinWindow ==
    /\ clients.coder.lost_count <= clients.coder.sample_count
    /\ clients.coder.sample_count <= WindowSamples

----------------------------------------------------------------------------
(* relay/storage.rs: RelayStorage::new(max_bytes, default_hold_time), one  *)
(* call after the other.  clients is the storage with the clock, the       *)
(* number of store calls made and the result of the last call; a chunk's   *)
(* data is held by its length.                                             *)

RelayChunkIds == {"x", "y"}
RelayPriorities == {0, 2}
RelayDestination == "d"

(* lines 63-74: StoredChunk::new *)
StoredChunk_new(chunk_id, priority, size, now) ==
    [chunk_id |-> chunk_id, priority |-> priority, destination |-> RelayDestination,
     size |-> size, stored_at |-> now, expires_at |-> now + RelayHoldTime]

(* lines 77-79 *)
is_expired(chunk, now) == now > chunk.expires_at

(* lines 179-186, 226-233 *)
PriorityKey(chunk) == <<chunk.priority, chunk.stored_at>>

(* lines 139-149 *)
RelayStorage_new ==
    [chunks |-> EmptyMap, priority_index |-> EmptyMap, destination_index |-> EmptyMap,
     max_bytes |-> MaxRelayBytes, used_bytes |-> 0]

(* lines 161-208, without persistence *)
relay_store(storage, chunk_id, priority, size, now) ==
    LET chunk == StoredChunk_new(chunk_id, priority, size, now)
        dest_key == chunk.destination
        list == IF dest_key \in DOMAIN storage.destination_index
                THEN storage.destination_index[dest_key] ELSE <<>>
    IN  IF storage.used_bytes + size > storage.max_bytes
        THEN [result |-> "CapacityExceeded", storage |-> storage]
        ELSE [result |-> "Ok",
              storage |-> [storage EXCEPT
                  !.chunks = Put(@, chunk_id, chunk),
                  !.priority_index = Put(@, PriorityKey(chunk), chunk_id),
                  !.destination_index = Put(@, dest_key, Append(list, chunk_id)),
                  !.used_bytes = @ + size]]

(* Vec::retain(|id| id != chunk_id) *)
RECURSIVE Retain(_, _)
Retain(list, chunk_id) ==
    IF list = <<>> THEN <<>>
    ELSE IF Head(list) = chunk_id THEN Retain(Tail(list), chunk_id)
    ELSE <<Head(list)>> \o Retain(Tail(list), chunk_id)

(* lines 216-252, without persistence *)
relay_remove(storage, chunk_id) ==
    IF chunk_id \notin DOMAIN storage.chunks THEN storage
    ELSE LET chunk == storage.chunks[chunk_id]
             dest_key == chunk.destination
         IN  [storage EXCEPT
                 !.chunks = Remove(@, chunk_id),
                 !.used_bytes = IF @ >= chunk.size THEN @ - chunk.size ELSE 0,
                 !.priority_index = Remove(@, PriorityKey(chunk)),
                 !.destination_index =
                     IF dest_key \in DOMAIN @
                     THEN [@ EXCEPT ![dest_key] = Retain(@, chunk_id)] ELSE @]

RECURSIVE RemoveAll(_, _)
RemoveAll(storage, ids) ==
    IF ids = {} THEN storage
    ELSE LET id == CHOOSE i \in ids : TRUE
         IN  RemoveAll(relay_remove(storage, id), ids \ {id})

(* lines 302-319 *)
cleanup_expired(storage, now) ==
    RemoveAll(storage, {id \in DOMAIN storage.chunks : is_expired(storage.chunks[id], now)})

RelayInit ==
    /\ fs = [f \in Files |-> 1]
    /\ session_store = EmptyMap
    /\ sm = EmptyMap
    /\ active_transfers = EmptyMap
    /\ recent_transfers = EmptyMap
    /\ file_to_session = EmptyMap
    /\ queues = EmptyQueues
    /\ stats = EmptyStats
    /\ workers = EmptyMap
    /\ calls = [c \in Callers |-> IdleCall]
    /\ crashes = 0
    /\ api_calls = 0
    /\ clients = [storage |-> RelayStorage_new, now |-> 0, made |-> 0,
                  op |-> "none", result |-> ""]

RelayStep(storage, now, op, result) ==
    /\ clients' = [storage |-> storage, now |-> now, op |-> op, result |-> result,
                   made |-> clients.made + (IF op = "store" THEN 1 ELSE 0)]
    /\ UNCHANGED <<queues, stats>>
    /\ UNCHANGED QueueRest

RelayStore(chunk_id, priority, size) ==
    LET done == relay_store(clients.storage, chunk_id, priority, size, clients.now)
    IN  /\ clients.made < MaxRelayStores
        /\ RelayStep(done.storage, clients.now, "store", done.result)

RelayRemove(chunk_id) ==
    RelayStep(relay_remove(clients.storage, chunk_id), clients.now, "remove",
              IF chunk_id \in DOMAIN clients.storage.chunks THEN "Some" ELSE "None")

RelayCleanupExpired ==
    RelayStep(cleanup_expired(clients.storage, clients.now), clients.now,
              "cleanup_expired", "")

(* A millisecond passes *)
RelayTick ==
    /\ clients.now < MaxRelayClock
    /\ RelayStep(clients.storage, clients.now + 1, "none", "")

RelayNext ==
    \/ \E chunk_id \in RelayChunkIds, priority \in RelayPriorities, size \in 0..MaxChunkBytes :
           RelayStore(chunk_id, priority, size)
    \/ \E chunk_id \in RelayChunkIds : RelayRemove(chunk_id)
    \/ RelayCleanupExpired
    \/ RelayTick

RelaySpec == RelayInit /\ [][RelayNext]_vars

RECURSIVE StoredBytes(_, _)
StoredBytes(chunks, ids) ==
    IF ids = {} THEN 0
    ELSE LET id == CHOOSE i \in ids : TRUE
         IN  chunks[id].size + StoredBytes(chunks, ids \ {id})

(* C40: after every store, remove and cleanup_expired used_bytes is the    *)
(* total size of the chunks stored and at most max_bytes, and a store that *)
(* returns CapacityExceeded has changed nothing.                           *)
C40_UsedBytesExact ==
    [][LET storage == clients'.storage
       IN  /\ storage.used_bytes = StoredBytes(storage.chunks, DOMAIN storage.chunks)
           /\ storage.used_bytes <= storage.max_bytes
           /\ clients'.result = "CapacityExceeded" => storage = clients.storage]_vars

=============================================================================
